---------------------------- MODULE Spec2Model ----------------------------
(***************************************************************************)
(* Hotel search agent (baobnk/hotel_agent): the hybrid retrieval and       *)
(* ranking pipeline of app/api/hotel-search/route.ts and its helpers in    *)
(* lib/hotel-query.ts, lib/intent-detection.ts, lib/hotel-config.ts.       *)
(*                                                                         *)
(* Conventions of the model                                                *)
(*  - a text (query, description) is a sequence of words; a substring test *)
(*    of the code (String.includes, a RegExp) is a test on the words, with *)
(*    Subs(w) giving the patterns of the code that occur inside word w;    *)
(*  - similarity is carried in hundredths (-100 .. 100 is [-1, 1]);        *)
(*    keywordScore in 1/ScoreScale and combinedScore in 1/(2*ScoreScale);  *)
(*  - a nullable string is the string NULL, a nullable number is None or   *)
(*    Some(n).                                                             *)
(***************************************************************************)
EXTENDS Integers, Sequences, FiniteSets, TLC

NULL == "null"
None == [has |-> FALSE, v |-> 0]
Some(n) == [has |-> TRUE, v |-> n]

Min2(a, b) == IF a <= b THEN a ELSE b
Max2(a, b) == IF a >= b THEN a ELSE b

Range(s) == {s[i] : i \in 1..Len(s)}

RECURSIVE SumSeq(_)
SumSeq(s) == IF s = <<>> THEN 0 ELSE Head(s) + SumSeq(Tail(s))

Reverse(s) == [i \in 1..Len(s) |-> s[Len(s) + 1 - i]]

(***************************************************************************)
(* Strings of the model's vocabulary.                                      *)
(***************************************************************************)

\* String.toLowerCase on the words the model uses
ToLower(w) ==
  CASE w = "Party" -> "party"
    [] w = "Melbourne" -> "melbourne"
    [] w = "Sydney" -> "sydney"
    [] w = "Brisbane" -> "brisbane"
    [] w = "Perth" -> "perth"
    [] w = "Budget" -> "budget"
    [] w = "Mid-tier" -> "mid-tier"
    [] w = "Luxury" -> "luxury"
    [] w = "Resort" -> "resort"
    [] w = "Grand" -> "grand"
    [] w = "Plaza" -> "plaza"
    [] w = "Tower" -> "tower"
    [] w = "Lodge" -> "lodge"
    [] w = "Villa" -> "villa"
    [] w = "Haven" -> "haven"
    [] w = "Pool" -> "pool"
    [] w = "Spa" -> "spa"
    [] w = "I" -> "i"
    [] w = "WiFi" -> "wifi"
    [] w = "Bar" -> "bar"
    [] w = "Garden" -> "garden"
    [] w = "LUXURY" -> "luxury"
    [] w = "DESC" -> "desc"
    [] w = "Quiet" -> "quiet"
    [] OTHER -> w

\* the patterns (lower case) that occur as a substring of the lower-case word w
Subs(w) ==
  CASE w = "cheapest" -> {"cheapest", "cheap"}
    [] w = "nightclub" -> {"nightclub", "club"}
    [] w = "mid-tier" -> {"mid-tier", "mid"}
    [] w = "kids" -> {"kids", "kid"}
    [] w = "priciest" -> {"priciest"}
    [] OTHER -> {w}

\* String.includes(pat) for a one-word pattern, on a text already lower-cased
Includes(text, pat) == \E i \in 1..Len(text) : pat \in Subs(text[i])

\* String.includes("a b") for a two-word pattern
Includes2(text, a, b) ==
  \E i \in 1..(Len(text) - 1) : text[i] = a /\ text[i + 1] = b

LowerText(text) == [i \in 1..Len(text) |-> ToLower(text[i])]

\* String.trim() of a hotel name: the names of the model are single words,
\* the empty string or a blank
Trim(s) == IF s = " " THEN "" ELSE s

(***************************************************************************)
(* lib/hotel-config.ts: tier bands and the result validator.               *)
(***************************************************************************)

BudgetMinPrice == 0
BudgetMaxPrice == 150
MidTierMinPrice == 150
MidTierMaxPrice == 400
LuxuryMinPrice == 300

ValidLocations == {"Melbourne", "Sydney", "Brisbane"}

TierNames == {"Budget", "Mid-tier", "Luxury"}

\* TIER_DEFINITIONS[tier]; Luxury has maxPrice Infinity (inf)
TIER_DEFINITIONS(tier) ==
  CASE tier = "Budget" ->
         [minPrice |-> BudgetMinPrice, maxPrice |-> BudgetMaxPrice, inf |-> FALSE]
    [] tier = "Mid-tier" ->
         [minPrice |-> MidTierMinPrice, maxPrice |-> MidTierMaxPrice, inf |-> FALSE]
    [] tier = "Luxury" ->
         [minPrice |-> LuxuryMinPrice, maxPrice |-> 0, inf |-> TRUE]

Valid == [valid |-> TRUE, reason |-> ""]
Invalid(reason) == [valid |-> FALSE, reason |-> reason]

validateTierPrice(tier, price) ==
  IF tier = NULL THEN Valid
  ELSE IF tier \notin TierNames THEN Valid
  ELSE LET tierDef == TIER_DEFINITIONS(tier)
       IN IF price < tierDef.minPrice \/ (~tierDef.inf /\ price > tierDef.maxPrice)
          THEN Invalid("tier range")
          ELSE Valid

\* a variant that accepts any name
validateHotelResultNoName(hotel) ==
  IF hotel.price_per_night < 0 THEN Invalid("Price cannot be negative")
  ELSE IF hotel.price_per_night = 0 THEN Invalid("Price cannot be zero")
  ELSE IF ~validateTierPrice(hotel.tier, hotel.price_per_night).valid
       THEN validateTierPrice(hotel.tier, hotel.price_per_night)
  ELSE IF hotel.location \notin ValidLocations THEN Invalid("Invalid location")
  ELSE IF hotel.similarity < 0 - 100 \/ hotel.similarity > 100
       THEN Invalid("Invalid similarity score")
  ELSE Valid

validateHotelResult(hotel) ==
  IF hotel.price_per_night < 0 THEN Invalid("Price cannot be negative")
  ELSE IF hotel.price_per_night = 0 THEN Invalid("Price cannot be zero")
  ELSE IF ~validateTierPrice(hotel.tier, hotel.price_per_night).valid
       THEN validateTierPrice(hotel.tier, hotel.price_per_night)
  ELSE IF hotel.location \notin ValidLocations THEN Invalid("Invalid location")
  ELSE IF hotel.similarity < 0 - 100 \/ hotel.similarity > 100
       THEN Invalid("Invalid similarity score")
  ELSE IF hotel.name = "" \/ Len(Trim(hotel.name)) = 0
       THEN Invalid("Hotel name is required")
  ELSE Valid

(***************************************************************************)
(* Array.prototype.sort as the runtime (V8) computes it for an array under *)
(* 64 elements: the leading run is found (and reversed if it descends),    *)
(* the other elements are put in place by binary insertion.  With a        *)
(* consistent comparator this is the stable sort.                          *)
(***************************************************************************)

ArraySort(s, Cmp(_, _)) ==
  LET n == Len(s)
      desc == Cmp(s[2], s[1]) < 0
      RunEnd[i \in 2..n] ==
        IF i = n THEN n
        ELSE LET o == Cmp(s[i + 1], s[i])
             IN IF (desc /\ o >= 0) \/ (~desc /\ o < 0) THEN i ELSE RunEnd[i + 1]
      run == RunEnd[2]
      first == IF desc THEN Reverse(SubSeq(s, 1, run)) \o SubSeq(s, run + 1, n)
               ELSE s
      RECURSIVE Pos(_, _, _, _)
      Pos(a, pivot, left, right) ==
        IF left >= right THEN left
        ELSE LET mid == left + ((right - left) \div 2)
             IN IF Cmp(pivot, a[mid + 1]) < 0
                THEN Pos(a, pivot, left, mid)
                ELSE Pos(a, pivot, mid + 1, right)
      InsertAt(a, k) ==
        LET left == Pos(a, a[k], 0, k - 1)
        IN SubSeq(a, 1, left) \o <<a[k]>> \o SubSeq(a, left + 1, k - 1)
             \o SubSeq(a, k + 1, n)
      RECURSIVE Pass(_, _)
      Pass(a, k) == IF k > n THEN a ELSE Pass(InsertAt(a, k), k + 1)
  IN IF n < 2 THEN s ELSE Pass(first, run + 1)

\* Array.prototype.slice(0, end)
Slice(s, end) == SubSeq(s, 1, Min2(Len(s), Max2(end, 0)))

(***************************************************************************)
(* lib/hotel-query.ts: keyword score, combined score.                      *)
(***************************************************************************)

ScoreScale == 100 * 100

\* [name, description, tier || "", ...amenities] as the words of hotelText
HotelWords(hotel) ==
  LowerText(<<hotel.name>> \o hotel.description
              \o <<IF hotel.tier = NULL THEN "" ELSE hotel.tier>>
              \o hotel.amenities)

\* hotelText.length: the words joined by one blank
DocLength(words) ==
  SumSeq([i \in 1..Len(words) |-> Len(words[i])]) + (Len(words) - 1)

\* hotelText.match(new RegExp(keyword, "gi")).length
TermFreq(words, keyword) ==
  Cardinality({i \in 1..Len(words) : keyword \in Subs(words[i])})

\* the words of the query longer than two characters
QueryWords(userQuery) ==
  SelectSeq(LowerText(userQuery), LAMBDA w : Len(w) > 2)

\* a variant that scores the share of the keywords matched and nothing else
calculateKeywordScoreCoverage(hotel, keywords0, userQuery) ==
  LET keywords == IF Len(keywords0) = 0 THEN QueryWords(userQuery) ELSE keywords0
      words == HotelWords(hotel)
      matchedKeywords ==
        Cardinality({i \in 1..Len(keywords) : TermFreq(words, keywords[i]) > 0})
  IN IF Len(keywords) = 0 THEN ScoreScale \div 2
     ELSE (matchedKeywords * ScoreScale) \div Len(keywords)

\* keywordScore in 1/ScoreScale; k1 = 1.5, b = 0.75, avgDocLength = 200, so
\* tfScore = tf * 2.5 / (tf + 1.5 * (0.25 + 0.75 * L / 200))
\*         = 4000 * tf / (1600 * tf + 600 + 9 * L)
calculateKeywordScore(hotel, keywords0, userQuery) ==
  LET keywords == IF Len(keywords0) = 0 THEN QueryWords(userQuery) ELSE keywords0
      words == HotelWords(hotel)
      docLength == DocLength(words)
      tfScore(tf) == (4000 * tf * ScoreScale) \div (1600 * tf + 600 + 9 * docLength)
      tfs == [i \in 1..Len(keywords) |-> TermFreq(words, keywords[i])]
      score == SumSeq([i \in 1..Len(keywords) |->
                         IF tfs[i] > 0 THEN tfScore(tfs[i]) ELSE 0])
      matchedKeywords == Cardinality({i \in 1..Len(keywords) : tfs[i] > 0})
      normalizedScore == Min2(ScoreScale, (2 * score) \div (5 * Len(keywords)))
      keywordCoverage == (matchedKeywords * ScoreScale) \div Len(keywords)
      finalScore == (6 * normalizedScore + 4 * keywordCoverage) \div 10
  IN IF Len(keywords) = 0 THEN ScoreScale \div 2
     ELSE Max2(0, Min2(ScoreScale, finalScore))

\* a variant that takes the similarity as it is, without (sim + 1) / 2
calculateCombinedScoreRaw(similarity, keywordScore) ==
  (similarity * ScoreScale) \div 100 + keywordScore

\* combinedScore in 1/(2*ScoreScale), vectorWeight = 0.5:
\* ((sim + 1) / 2) * 0.5 + keywordScore * 0.5
calculateCombinedScore(similarity, keywordScore) ==
  ((similarity + 100) * ScoreScale) \div 200 + keywordScore

\* a similarity (hundredths) in the unit of combinedScore
SimAsScore(similarity) == (similarity * 2 * ScoreScale) \div 100

WithScores(hotel, keywords, userQuery) ==
  LET ks == calculateKeywordScore(hotel, keywords, userQuery)
  IN hotel @@ [keywordScore |-> ks,
               combinedScore |-> calculateCombinedScore(hotel.similarity, ks)]

ScoreAll(hotels, keywords, userQuery) ==
  [i \in 1..Len(hotels) |-> WithScores(hotels[i], keywords, userQuery)]

(***************************************************************************)
(* The comparators handed to Array.sort.                                   *)
(***************************************************************************)

ByPriceAsc(a, b) == a.price_per_night - b.price_per_night

ByPriceDesc(a, b) == b.price_per_night - a.price_per_night

BySimilarityDesc(a, b) == b.similarity - a.similarity

\* (b.combinedScore || 0) - (a.combinedScore || 0)
ByScoreDesc(a, b) == b.combinedScore - a.combinedScore

\* score first; on exactly equal scores the lower price
ByScoreThenPrice(a, b) ==
  IF a.combinedScore # b.combinedScore
  THEN b.combinedScore - a.combinedScore
  ELSE a.price_per_night - b.price_per_night

\* the non-streaming route: scores closer than 0.05 are ordered by price
NearScore == ScoreScale \div 10

ByNearScorePrice(a, b) ==
  LET diff == IF a.combinedScore >= b.combinedScore
              THEN a.combinedScore - b.combinedScore
              ELSE b.combinedScore - a.combinedScore
  IN IF diff < NearScore
     THEN a.price_per_night - b.price_per_night
     ELSE b.combinedScore - a.combinedScore

\* a.combinedScore || a.similarity || 0
RerankScore(h) ==
  IF h.combinedScore # 0 THEN h.combinedScore
  ELSE IF h.similarity # 0 THEN SimAsScore(h.similarity)
  ELSE 0

\* the comparator used when OPENAI_API_KEY is not set
ByRerankScore(a, b) == RerankScore(b) - RerankScore(a)

ByRerankScoreThenPrice(a, b) ==
  IF RerankScore(a) # RerankScore(b)
  THEN RerankScore(b) - RerankScore(a)
  ELSE a.price_per_night - b.price_per_night

(***************************************************************************)
(* Result Selector: the truncation to 3-5 hotels.                          *)
(***************************************************************************)

minResults == 3
maxResults == 5

\* a variant that cuts one hotel later
LimitResultsPadless(hotels) == Slice(hotels, maxResults + 1)

LimitResults(hotels) ==
  Slice(hotels, Min2(maxResults, Max2(minResults, Len(hotels))))

(***************************************************************************)
(* lib/intent-detection.ts                                                 *)
(***************************************************************************)

\* the largest amount that a query of the model can name
MaxTarget == 250

\* the words that \$?(\d+) matches, with the value parseInt(.., 10) gives
AmountWords ==
  {ToString(n) : n \in 0..MaxTarget} \cup {"$" \o ToString(n) : n \in 0..MaxTarget}

TildeAmountWords == {"~" \o a : a \in AmountWords}

\* the number a word of the three forms N, $N, ~N, ~$N holds
AmountValue ==
  [w \in AmountWords \cup TildeAmountWords |->
     CHOOSE n \in 0..MaxTarget :
       w \in {ToString(n), "$" \o ToString(n), "~" \o ToString(n),
              "~$" \o ToString(n)}]

parseInt(w) == AmountValue[w]

\* a pattern is a sequence of one or two words (joined by \s+ in the code)
Matches(text, pat) ==
  IF Len(pat) = 1 THEN Includes(text, pat[1])
  ELSE IF Len(pat) = 2 THEN Includes2(text, pat[1], pat[2])
  ELSE \E i \in 1..(Len(text) - 2) :
         text[i] = pat[1] /\ text[i + 1] = pat[2] /\ text[i + 2] = pat[3]

AnyMatch(text, pats) == \E i \in 1..Len(pats) : Matches(text, pats[i])

FirstMatch(text, pats) ==
  pats[CHOOSE i \in 1..Len(pats) :
         Matches(text, pats[i]) /\ \A j \in 1..(i - 1) : ~Matches(text, pats[j])]

\* The queries of the model are English: the Vietnamese patterns of the
\* three lists match none of them and are left out.
expensivePatterns ==
  << <<"most", "expensive">>, <<"highest", "price">>,
     <<"priciest">>, <<"luxury">>, <<"premium">>, <<"exclusive">> >>

cheapPatterns ==
  << <<"cheapest">>, <<"lowest", "price">>, <<"most", "affordable">>,
     <<"budget">> >>

\* the word before the amount; "~" is glued to the amount in one word
priceRangePatterns == <<"around", "about", "~", "approximately">>

\* queryLower.match(pattern): the first place where the pattern matches,
\* 0 when it does not
PriceMatches(text, w) ==
  IF w = "~"
  THEN {i \in 1..Len(text) : text[i] \in TildeAmountWords}
  ELSE {i \in 1..(Len(text) - 1) :
          Includes(<<text[i]>>, w) /\ text[i + 1] \in AmountWords}

FirstOrZero(hits) ==
  IF hits = {} THEN 0 ELSE CHOOSE i \in hits : \A j \in hits : i <= j

PriceMatchAt(text, w) == FirstOrZero(PriceMatches(text, w))

\* parseInt(match[1], 10) of that match
PriceMatchTarget(text, w) ==
  IF w = "~" THEN parseInt(text[PriceMatchAt(text, w)])
  ELSE parseInt(text[PriceMatchAt(text, w) + 1])

extractLocation(query) ==
  LET queryLower == LowerText(query)
  IN IF Includes(queryLower, "melbourne") THEN "Melbourne"
     ELSE IF Includes(queryLower, "sydney") THEN "Sydney"
     ELSE IF Includes(queryLower, "brisbane") THEN "Brisbane"
     ELSE NULL

\* the price patterns, in their order, whose first match has a target > 0
GoodPricePatterns(queryLower) ==
  {i \in 1..Len(priceRangePatterns) :
     /\ PriceMatchAt(queryLower, priceRangePatterns[i]) > 0
     /\ PriceMatchTarget(queryLower, priceRangePatterns[i]) > 0}

Least(set) == CHOOSE i \in set : \A j \in set : i <= j

IntentResult(intent, confidence, detectedPhrases, location, priceTarget) ==
  [intent |-> intent, confidence |-> confidence,
   detectedPhrases |-> detectedPhrases, location |-> location,
   priceTarget |-> priceTarget]

PriceRangeResult(queryLower, location, pattern) ==
  IntentResult("price_range", 85, << <<pattern>> >>, location,
               Some(PriceMatchTarget(queryLower, pattern)))

\* a variant that looks for the cheapest patterns first
DetectInCheapFirst(queryLower, location, good) ==
  IF AnyMatch(queryLower, cheapPatterns)
  THEN IntentResult("cheapest", 90,
                    <<FirstMatch(queryLower, cheapPatterns)>>, location, None)
  ELSE IF AnyMatch(queryLower, expensivePatterns)
  THEN IntentResult("most_expensive", 90,
                    <<FirstMatch(queryLower, expensivePatterns)>>, location, None)
  ELSE IF good # {}
  THEN PriceRangeResult(queryLower, location, priceRangePatterns[Least(good)])
  ELSE IntentResult("normal", 100, <<>>, location, None)

DetectIn(queryLower, location, good) ==
  IF AnyMatch(queryLower, expensivePatterns)
  THEN IntentResult("most_expensive", 90,
                    <<FirstMatch(queryLower, expensivePatterns)>>, location, None)
  ELSE IF AnyMatch(queryLower, cheapPatterns)
  THEN IntentResult("cheapest", 90,
                    <<FirstMatch(queryLower, cheapPatterns)>>, location, None)
  ELSE IF good # {}
  THEN PriceRangeResult(queryLower, location, priceRangePatterns[Least(good)])
  ELSE IntentResult("normal", 100, <<>>, location, None)

\* confidence in hundredths
detectQueryIntent(query) ==
  DetectIn(LowerText(query), extractLocation(query),
           GoodPricePatterns(LowerText(query)))

(***************************************************************************)
(* lib/hotel-statistics.ts: the price statistics by location.              *)
(***************************************************************************)

\* prices.by_location[..].max of data/hotel_statistics.json
DocumentedMaxPrice ==
  [Melbourne |-> 1500, Sydney |-> 2000, Brisbane |-> 600]

\* a catalogue whose Brisbane hotels are all cheap: 80% of its maximum is
\* below the active minimum
SparseMaxPrice ==
  [Melbourne |-> 1500, Sydney |-> 2000, Brisbane |-> 30]

StatisticsTables == {DocumentedMaxPrice, SparseMaxPrice}

\* null (None) for a location the statistics do not list
getLocationStatistics(byLocation, location) ==
  IF location \in DOMAIN byLocation THEN Some(byLocation[location]) ELSE None

(***************************************************************************)
(* lib/hotel-config.ts: keywords to amenities.                             *)
(***************************************************************************)

\* AMENITY_MAPPING on the keywords of the model; <<>> for a keyword that is
\* not a key
AMENITY_MAPPING(keyword) ==
  CASE keyword = "quiet" -> <<"Quiet", "Silence", "Nature", "Library", "No TV">>
    [] keyword = "luxury" -> <<"Spa", "Butler", "View", "Pool", "Casino", "Concierge">>
    [] keyword = "spa" -> <<"Spa", "Pool">>
    [] keyword = "pool" -> <<"Pool", "Beach">>
    [] keyword = "party" -> <<"Club", "Bar", "Beer">>
    [] OTHER -> <<>>

\* Set.add keeps the first insertion of each amenity
RECURSIVE AddAll(_, _)
AddAll(acc, items) ==
  IF items = <<>> THEN acc
  ELSE AddAll(IF Head(items) \in Range(acc) THEN acc ELSE Append(acc, Head(items)),
              Tail(items))

RECURSIVE mapKeywordsToAmenities(_)
mapKeywordsToAmenities(keywords) ==
  IF keywords = <<>> THEN <<>>
  ELSE AddAll(mapKeywordsToAmenities(SubSeq(keywords, 1, Len(keywords) - 1)),
              AMENITY_MAPPING(ToLower(keywords[Len(keywords)])))

(***************************************************************************)
(* lib/hotel-query.ts: the query interpreter.                              *)
(***************************************************************************)

\* a JSON value of the parser's reply
JNull == [t |-> "null", n |-> 0, s |-> "", a |-> <<>>]
JNum(n) == [t |-> "number", n |-> n, s |-> "", a |-> <<>>]
JStr(s) == [t |-> "string", n |-> 0, s |-> s, a |-> <<>>]
JArr(a) == [t |-> "array", n |-> 0, s |-> "", a |-> a]

\* the tier named by parsed.tier
ExplicitTier(v) ==
  IF v.t # "string" THEN NULL
  ELSE LET tierLower == ToLower(v.s)
       IN IF tierLower = "budget" THEN "Budget"
          ELSE IF tierLower \in {"mid-tier", "mid tier", "midrange"} THEN "Mid-tier"
          ELSE IF tierLower = "luxury" THEN "Luxury"
          ELSE NULL

\* the tier inferred from the keywords when parsed.tier names none
InferTier(tier, keywords) ==
  IF tier # NULL \/ Len(keywords) = 0 THEN tier
  ELSE IF \E w \in {"budget", "cheap", "affordable"} : Includes(keywords, w)
  THEN "Budget"
  ELSE IF \E w \in {"luxury", "premium", "exclusive"} : Includes(keywords, w)
  THEN "Luxury"
  ELSE IF \E w \in {"mid", "moderate"} : Includes(keywords, w)
  THEN "Mid-tier"
  ELSE NULL

ParsedKeywords(parsed) ==
  IF parsed.keywords.t = "array" THEN LowerText(parsed.keywords.a) ELSE <<>>

\* a variant that takes every number of the reply as a price
SanitizedHintsAnyNumber(parsed) ==
  LET keywords == ParsedKeywords(parsed)
      Number(v) == IF v.t = "number" THEN Some(v.n) ELSE None
  IN [location |-> IF parsed.location.t = "string" /\ parsed.location.s # ""
                   THEN parsed.location.s ELSE NULL,
      minPrice |-> Number(parsed.minPrice),
      maxPrice |-> Number(parsed.maxPrice),
      price |-> Number(parsed.price),
      tier |-> InferTier(ExplicitTier(parsed.tier), keywords),
      name |-> IF parsed.name.t = "string" /\ Trim(parsed.name.s) # ""
               THEN Trim(parsed.name.s) ELSE NULL,
      keywords |-> keywords,
      amenities |-> mapKeywordsToAmenities(keywords)]

\* the fields both versions of the interpreter sanitise in the same way; a
\* null keywords or amenities list is the empty sequence
SanitizedHints(parsed) ==
  LET keywords == ParsedKeywords(parsed)
  IN [location |-> IF parsed.location.t = "string" /\ parsed.location.s # ""
                   THEN parsed.location.s ELSE NULL,
      minPrice |-> IF parsed.minPrice.t = "number" /\ parsed.minPrice.n >= 0
                   THEN Some(parsed.minPrice.n) ELSE None,
      maxPrice |-> IF parsed.maxPrice.t = "number" /\ parsed.maxPrice.n > 0
                   THEN Some(parsed.maxPrice.n) ELSE None,
      price |-> IF parsed.price.t = "number" /\ parsed.price.n > 0
                THEN Some(parsed.price.n) ELSE None,
      tier |-> InferTier(ExplicitTier(parsed.tier), keywords),
      name |-> IF parsed.name.t = "string" /\ Trim(parsed.name.s) # ""
               THEN Trim(parsed.name.s) ELSE NULL,
      keywords |-> keywords,
      amenities |-> mapKeywordsToAmenities(keywords)]

activeMin == 30
cheapestMaxPrice == 50

\* the hints before the intent is applied
IntentHints(sanitized, intentResult) ==
  sanitized @@
    [queryIntent |-> intentResult.intent,
     sortBy |-> IF intentResult.intent = "most_expensive" THEN "price_desc"
                ELSE IF intentResult.intent = "cheapest" THEN "price_asc"
                ELSE "relevance",
     priceTarget |-> intentResult.priceTarget,
     sortByPrice |-> NULL]

\* Math.floor(x * 0.8) and Math.ceil(x * 1.2) on a whole number
Floor80(x) == (x * 4) \div 5
Ceil120(x) == (x * 6 + 4) \div 5

MostExpensive(hints, locationStats) ==
  IF locationStats.has
  THEN [hints EXCEPT !.minPrice = Some(Max2(Floor80(locationStats.v), activeMin)),
                     !.tier = "Luxury"]
  ELSE hints

Cheapest(hints, locationStats) ==
  IF locationStats.has
  THEN [hints EXCEPT !.maxPrice = Some(cheapestMaxPrice), !.tier = "Budget"]
  ELSE hints

PriceRange(hints, priceTarget) ==
  [hints EXCEPT !.minPrice = Some(Floor80(priceTarget)),
                !.maxPrice = Some(Ceil120(priceTarget))]

\* a variant that leaves the bounds of an "around $X" query to the parser
ApplyIntentKeepBounds(hints, intentResult, byLoc) ==
  IF intentResult.intent = "most_expensive" /\ hints.location # NULL
  THEN MostExpensive(hints, getLocationStatistics(byLoc, hints.location))
  ELSE IF intentResult.intent = "cheapest" /\ hints.location # NULL
  THEN Cheapest(hints, getLocationStatistics(byLoc, hints.location))
  ELSE hints

\* a variant that leaves the tier and the bounds of a superlative to the parser
ApplyIntentNoSuperlative(hints, intentResult, byLoc) ==
  IF intentResult.intent = "price_range" /\ intentResult.priceTarget.has
  THEN PriceRange(hints, intentResult.priceTarget.v)
  ELSE hints

\* a variant that applies the superlatives without looking at the location
ApplyIntentAnyLocation(hints, intentResult, byLoc) ==
  IF intentResult.intent = "most_expensive"
  THEN MostExpensive(hints, Some(byLoc["Melbourne"]))
  ELSE IF intentResult.intent = "cheapest"
  THEN Cheapest(hints, Some(byLoc["Melbourne"]))
  ELSE IF intentResult.intent = "price_range" /\ intentResult.priceTarget.has
  THEN PriceRange(hints, intentResult.priceTarget.v)
  ELSE hints

\* Step 3 of the interpreter: the intent overrides tier and price bounds
ApplyIntent(hints, intentResult, byLoc) ==
  IF intentResult.intent = "most_expensive" /\ hints.location # NULL
  THEN MostExpensive(hints, getLocationStatistics(byLoc, hints.location))
  ELSE IF intentResult.intent = "cheapest" /\ hints.location # NULL
  THEN Cheapest(hints, getLocationStatistics(byLoc, hints.location))
  ELSE IF intentResult.intent = "price_range" /\ intentResult.priceTarget.has
  THEN PriceRange(hints, intentResult.priceTarget.v)
  ELSE hints

WithIntent(sanitized, intentResult, byLoc) ==
  ApplyIntent(IntentHints(sanitized, intentResult), intentResult, byLoc)

\* parseHotelQueryWithOpenAI of lib/hotel-query.ts, from the parsed reply on
parseHotelQueryWithOpenAI(userMessage, parsed, byLoc) ==
  WithIntent(SanitizedHints(parsed), detectQueryIntent(userMessage), byLoc)

\* the interpreter of the later version: no intent detection, a price order
\* read from the query or from parsed.sortByPrice
cheapestKeywords ==
  << <<"cheapest">>, <<"lowest", "price">>, <<"most", "affordable">> >>

expensiveKeywords ==
  << <<"most", "expensive">>, <<"highest", "price">> >>

SortFromQuery(queryLower) ==
  IF AnyMatch(queryLower, cheapestKeywords) THEN "asc"
  ELSE IF AnyMatch(queryLower, expensiveKeywords) THEN "desc"
  ELSE NULL

SortFromParsed(v) ==
  IF v.t # "string" THEN NULL
  ELSE IF ToLower(v.s) = "asc" THEN "asc"
  ELSE IF ToLower(v.s) = "desc" THEN "desc"
  ELSE NULL

SortByPrice(fromQuery, v) ==
  IF fromQuery = NULL THEN SortFromParsed(v) ELSE fromQuery

parseHotelQueryV2(userMessage, parsed) ==
  SanitizedHints(parsed) @@
    [queryIntent |-> NULL, sortBy |-> NULL, priceTarget |-> None,
     sortByPrice |-> SortByPrice(SortFromQuery(LowerText(userMessage)),
                                 parsed.sortByPrice)]

(***************************************************************************)
(* app/api/hotel-search/route.ts: the context filter of the first version. *)
(***************************************************************************)

\* the tags of the query, in the order of the code
QueryIntents(query) ==
  LET queryLower == LowerText(query)
      has(ws) == \E w \in ws : Includes(queryLower, w)
      tag(ws, name) == IF has(ws) THEN <<name>> ELSE <<>>
  IN tag({"quiet", "peaceful", "silent"}, "quiet_peaceful")
       \o tag({"party", "nightlife", "club"}, "party_nightlife")
       \o tag({"family", "kid", "children"}, "family_friendly")
       \o tag({"business", "work", "meeting"}, "business")
       \o tag({"luxury", "premium", "expensive"}, "luxury")
       \o tag({"cheap", "budget", "affordable"}, "budget")
       \o tag({"beach", "surf", "ocean"}, "beach")
       \o tag({"romantic", "honeymoon", "couple"}, "romantic")

\* the reason of the last contradiction rule that fires, "" when none does
FilterReason(intents, hotel) ==
  LET hotelDesc == LowerText(hotel.description)
      hotelName == LowerText(<<hotel.name>>)
      desc(ws) == \E w \in ws : Includes(hotelDesc, w)
      active(t) == t \in Range(intents)
  IN IF active("budget")
        /\ (hotel.tier = "Luxury" \/ hotel.price_per_night > 300)
     THEN "Hotel is luxury/expensive, but query wants budget"
     ELSE IF active("luxury")
        /\ (desc({"hostel", "backpacker", "bunk"}) \/ hotel.tier = "Budget")
     THEN "Hotel is budget/hostel, but query wants luxury"
     ELSE IF active("family_friendly")
        /\ (desc({"nightclub", "casino"}) \/ Includes2(hotelDesc, "adults", "only")
            \/ Includes(hotelName, "party"))
     THEN "Hotel not suitable for families"
     ELSE IF active("party_nightlife")
        /\ desc({"quiet", "silent", "peaceful", "retreat"})
     THEN "Hotel is quiet/peaceful, but query wants party/nightlife"
     ELSE IF active("quiet_peaceful")
        /\ desc({"party", "nightlife", "loud", "noisy", "nightclub", "dj"})
     THEN "Hotel is party/noisy, but query wants quiet/peaceful"
     ELSE ""

IsRelevant(intents, hotel) == FilterReason(intents, hotel) = ""

Relevant(intents, hotels) ==
  SelectSeq(hotels, LAMBDA h : IsRelevant(intents, h))

FilteredOut(intents, hotels) ==
  SelectSeq(hotels, LAMBDA h : ~IsRelevant(intents, h))

FilteredOutEntries(intents, out) ==
  [i \in 1..Len(out) |->
     [id |-> out[i].id, name |-> out[i].name,
      reason |-> FilterReason(intents, out[i])]]

\* a variant that returns the filtered list even when it is empty
SummaryOfNoFallback(intents, hotels, relevantHotels) ==
  [queryIntent |-> intents,
   relevantHotels |-> relevantHotels,
   filteredOutHotels |-> FilteredOutEntries(intents, FilteredOut(intents, hotels))]

SummaryOf(intents, hotels, relevantHotels) ==
  [queryIntent |-> intents,
   relevantHotels |-> IF Len(relevantHotels) > 0 THEN relevantHotels ELSE hotels,
   filteredOutHotels |-> FilteredOutEntries(intents, FilteredOut(intents, hotels))]

FilterBy(intents, hotels) == SummaryOf(intents, hotels, Relevant(intents, hotels))

buildSummaryContext(query, hints, hotels) == FilterBy(QueryIntents(query), hotels)

NoSummaryContext ==
  [queryIntent |-> <<>>, relevantHotels |-> <<>>, filteredOutHotels |-> <<>>]

(***************************************************************************)
(* The messages of the responses.                                          *)
(***************************************************************************)

AskLocation == "I can help you find a hotel, but first tell me which city you want"
AskQuery == "Please tell me what kind of hotel you need"
SearchFailed == "Search failed due to connection issues"
SearchFailedRetry ==
  "Search failed due to connection issues. Please try again in a moment."
NotFoundV1 == "Sorry, I couldn't find any hotels matching your request"
NotFoundV2 == "I apologize, but I couldn't find any hotels matching your preferences"
FoundSome == "Found hotels"

\* a variant that summarises an empty list like any other
generateNaturalResponseNoEmpty(version, hotels) == FoundSome

\* generateNaturalResponse: the fixed message for no hotel, else a summary
generateNaturalResponse(version, hotels) ==
  IF Len(hotels) = 0
  THEN IF version = "v1" THEN NotFoundV1 ELSE NotFoundV2
  ELSE FoundSome

(***************************************************************************)
(* lib/hotel-query.ts (later version): llmReRankHotels.                    *)
(***************************************************************************)

\* the reply of the ranking model: it throws, has no content, has content
\* that holds no array, or holds an array of numbers
LlmUnavailable == [kind |-> "unavailable", order |-> <<>>]
LlmThrows == [kind |-> "throw", order |-> <<>>]
LlmEmpty == [kind |-> "empty", order |-> <<>>]
LlmNoArray == [kind |-> "no_array", order |-> <<>>]
LlmOrder(order) == [kind |-> "array", order |-> order]

needsLLMReranking(userQuery, hints) ==
  LET queryLower == LowerText(userQuery)
  IN \/ Includes2(queryLower, "best", "value")
     \/ Includes2(queryLower, "best", "deal")
     \/ Includes2(queryLower, "most", "suitable")
     \/ \E i \in 1..Len(hints.keywords) :
          ToLower(hints.keywords[i]) \in {"value", "deal", "suitable"}

\* the hotels the indices of the reply name (0-based, those out of range
\* skipped), then every hotel not yet in the list
Reordered(hotels, order) ==
  LET inRange(idx) == idx >= 0 /\ idx < Len(hotels)
      picked == SelectSeq(order, inRange)
      isMissing(i) == \A j \in 1..Len(picked) : picked[j] + 1 # i
      missing == SelectSeq([i \in 1..Len(hotels) |-> i], isMissing)
  IN [j \in 1..Len(picked) |-> hotels[picked[j] + 1]]
       \o [j \in 1..Len(missing) |-> hotels[missing[j]]]

\* a variant that answers a failed call with the cheapest hotel first
llmReRankHotelsCheapestOnFailure(hotels, userQuery, hints, reply) ==
  IF Len(hotels) <= 1 THEN hotels
  ELSE IF hints.sortByPrice = "asc" THEN ArraySort(hotels, ByPriceAsc)
  ELSE IF hints.sortByPrice = "desc" THEN ArraySort(hotels, ByPriceDesc)
  ELSE IF ~needsLLMReranking(userQuery, hints)
  THEN ArraySort(hotels, ByRerankScoreThenPrice)
  ELSE IF reply.kind # "array" THEN ArraySort(hotels, ByPriceAsc)
  ELSE Reordered(hotels, reply.order)

llmReRankHotels(hotels, userQuery, hints, reply) ==
  IF Len(hotels) <= 1 THEN hotels
  ELSE IF hints.sortByPrice = "asc" THEN ArraySort(hotels, ByPriceAsc)
  ELSE IF hints.sortByPrice = "desc" THEN ArraySort(hotels, ByPriceDesc)
  ELSE IF ~needsLLMReranking(userQuery, hints)
  THEN ArraySort(hotels, ByRerankScoreThenPrice)
  ELSE IF reply.kind = "unavailable" THEN ArraySort(hotels, ByRerankScore)
  ELSE IF reply.kind # "array" THEN hotels
  ELSE Reordered(hotels, reply.order)

(***************************************************************************)
(* The inputs: the hotel table of the retriever, the queries, the replies  *)
(* of the parsing model.                                                   *)
(***************************************************************************)

Hotel(id, name, description, location, price, tier, amenities, similarity) ==
  [id |-> id, name |-> name, description |-> description, location |-> location,
   price_per_night |-> price, tier |-> tier, amenities |-> amenities,
   similarity |-> similarity]

\* The active hotels a city may have in the table.  1-10 are sound: Grand
\* and Villa differ by 0.01 in similarity only; Plaza and Tower get the same
\* score from every query, the dearer one first; two party hotels; two
\* hotels under $50 and two above $1600, the better match the wrong way
\* round in price.  11-17 each break one rule of the validator.
Catalog(city) ==
  << Hotel(1, "Grand", <<"luxury", "spa", "suite">>, city, 650, "Luxury",
           <<"Spa", "Pool">>, 70),
     Hotel(2, "Villa", <<"luxury", "ocean", "suite">>, city, 350, NULL,
           <<"Spa", "Pool">>, 69),
     Hotel(3, "Haven", <<"quiet", "retreat", "garden">>, city, 120, "Budget",
           <<"Garden">>, 60),
     Hotel(4, "Plaza", <<"central", "business", "hotel">>, city, 220, "Mid-tier",
           <<"WiFi">>, 50),
     Hotel(5, "Tower", <<"central", "business", "hotel">>, city, 180, "Mid-tier",
           <<"WiFi">>, 50),
     Hotel(6, "Party", <<"party", "nightclub", "dj">>, city, 90, "Budget",
           <<"Bar">>, 55),
     Hotel(7, "Party", <<"party", "nightclub", "dj">>, city, 40, "Budget",
           <<"Bar">>, 40),
     Hotel(8, "Lodge", <<"backpacker", "hostel", "bunk">>, city, 45, "Budget",
           <<"Bar">>, 52),
     Hotel(9, "Grand", <<"luxury", "spa", "suite">>, city, 1700, "Luxury",
           <<"Spa", "Pool">>, 80),
     Hotel(10, "Tower", <<"luxury", "spa", "suite">>, city, 1900, "Luxury",
           <<"Spa", "Pool">>, 60),
     Hotel(11, "Resort", <<"quiet", "beach", "hotel">>, city, 0, "Budget",
           <<"Pool">>, 65),
     Hotel(12, "Resort", <<"quiet", "beach", "hotel">>, city, -10, NULL,
           <<"Pool">>, 64),
     Hotel(13, "Resort", <<"quiet", "beach", "hotel">>, city, 200, "Budget",
           <<"Pool">>, 63),
     Hotel(14, "Resort", <<"quiet", "beach", "hotel">>, city, 100, "Budget",
           <<"Pool">>, 150),
     Hotel(15, "", <<"quiet", "beach", "hotel">>, city, 100, "Budget",
           <<"Pool">>, 61),
     Hotel(16, "Resort", <<"quiet", "beach", "hotel">>, "Perth", 100, "Budget",
           <<"Pool">>, 59),
     Hotel(17, " ", <<"quiet", "beach", "hotel">>, city, 100, "Budget",
           <<"Pool">>, 62) >>

\* the most rows one reply of the retriever holds in the model
MaxRows == 6

\* the cities a parsed location of the model names
Cities == ValidLocations \cup {"Perth"}

\* a run of n hotels of a table from the start-th on, wrapping around
Window(table, start, n) ==
  [i \in 1..n |-> table[((start + i - 2) % Len(table)) + 1]]

Windows(table) ==
  {Window(table, start, n) : start \in 1..Len(table), n \in 0..MaxRows}

\* what the table may hold for a city
RowSets == [city \in Cities |-> Windows(Catalog(city))]

\* amenities && ARRAY[...]: the row has one of the amenities asked for
Overlaps(rowAmenities, asked) == Range(rowAmenities) \cap Range(asked) # {}

\* the WHERE clause of match_hotels_hybrid: location, price bounds and tier,
\* and the amenities when the call passes any (the first version does)
MeetsConstraints(params, hotel) ==
  /\ hotel.location = params.p_location
  /\ params.p_min_price.has => hotel.price_per_night >= params.p_min_price.v
  /\ params.p_max_price.has => hotel.price_per_night <= params.p_max_price.v
  /\ params.p_tier # NULL => hotel.tier = params.p_tier
  /\ params.p_amenities # <<>> => Overlaps(hotel.amenities, params.p_amenities)

\* the retriever: the rows that meet the hard constraints, the most similar
\* first, p_limit of them at most
match_hotels_hybrid(params, table) ==
  Slice(ArraySort(SelectSeq(table, LAMBDA h : MeetsConstraints(params, h)),
                  BySimilarityDesc),
        params.p_limit)

Queries ==
  { <<>>,
    <<"I", "need", "a", "hotel", "under", "$200">>,
    <<"quiet", "hotel", "in", "Melbourne">>,
    <<"cheapest", "hotel", "in", "Melbourne">>,
    <<"most", "expensive", "hotel">>,
    <<"hotel", "around", "$200", "in", "Brisbane">>,
    <<"best", "value", "hotel", "in", "Sydney">>,
    <<"luxury", "hotel", "in", "Melbourne">>,
    <<"party", "hotel", "in", "Melbourne">> }

Parsed(location, minPrice, maxPrice, tier, keywords, sortByPrice) ==
  [location |-> location, minPrice |-> minPrice, maxPrice |-> maxPrice,
   price |-> JNull, tier |-> tier, name |-> JNull, keywords |-> keywords,
   sortByPrice |-> sortByPrice]

NoParsed == Parsed(JNull, JNull, JNull, JNull, JNull, JNull)

Reply(parsed) == [kind |-> "json", parsed |-> parsed]

\* what the parsing model may answer: JSON of the schema, JSON off the
\* schema, no content, content that is not JSON, or the call throws
ParserReplies ==
  { Reply(Parsed(JStr("Melbourne"), JNull, JNum(200), JNull,
                 JArr(<<"Quiet">>), JNull)),
    Reply(Parsed(JNull, JNull, JNum(200), JNull, JArr(<<>>), JNull)),
    Reply(Parsed(JStr("Sydney"), JNum(-5), JNum(0), JStr("LUXURY"),
                 JArr(<<"luxury", "pool">>), JStr("DESC"))),
    Reply(Parsed(JStr("Brisbane"), JNum(100), JNum(300), JNull,
                 JArr(<<"cheap">>), JStr("asc"))),
    Reply(Parsed(JStr("Perth"), JNull, JNull, JNull, JNull, JNull)),
    Reply(Parsed(JStr("Melbourne"), JNull, JNull, JNull, JArr(<<>>), JNull)),
    Reply(Parsed(JNum(5), JNull, JNull, JStr("Deluxe"), JStr("quiet"), JNum(1))),
    [kind |-> "empty", parsed |-> NoParsed],
    [kind |-> "invalid", parsed |-> NoParsed],
    [kind |-> "throw", parsed |-> NoParsed] }

LlmReplies ==
  { LlmThrows, LlmEmpty, LlmNoArray,
    LlmOrder(<<1, 0>>), LlmOrder(<<2, 2, 0>>), LlmOrder(<<7, -1, 1>>) }

(***************************************************************************)
(* The state of one request to POST /api/hotel-search.                     *)
(***************************************************************************)

VARIABLES
  version,          \* "v1" or "v2": which version of the route serves
  useStream,        \* body.stream !== false
  userMessage,      \* body.message, trimmed
  byLocation,       \* the statistics the interpreter reads
  pc,               \* where the handler stands
  parserReply,      \* what the parsing model answered
  hints,            \* the result of parseHotelQueryWithOpenAI
  hintsReady,       \* TRUE once the interpreter has returned
  calls,            \* the external calls issued so far, in order
  rpcParams,        \* the hard constraints sent to the retriever
  rpcResult,        \* "none", or "error" / "data" once the retriever returned
  hotels,           \* the rows of the retriever, mapped
  combinedResults,  \* scored and sorted
  validatedHotels,  \* after the validator
  rerankedHotels,   \* v2: after llmReRankHotels
  candidateHotels,  \* v1 stream: after the truncation, before the filter
  summaryContext,   \* v1 stream: the result of buildSummaryContext
  finalHotels,      \* the hotels of the response
  events,           \* the chunks the generator has yielded
  streamState,      \* "none", "open", "closed" (after [DONE]) or "errored"
  response,         \* the JSON response of the non-streaming path
  frames,           \* what createStreamResponse has enqueued on the stream
  \* the state of ChatMain, the client component
  isConversationStarted,
  messages,           \* the messages shown, each with its id
  pendingBaseQuery,   \* the query a clarification was asked for
  isLoading,
  streamingMessageId, \* the ref: the placeholder of the running search
  requests,           \* every call of callHotelSearchStreaming so far
  clientLog,          \* the typed events read and the resets, in order
  \* a call of supabaseRpcWithRetry (lib/supabase.ts)
  maxRetries,         \* the parameter of the call
  retryPc,            \* "idle", "rpc" (awaiting supabase.rpc), "delay", "returned"
  attempt,            \* the loop variable
  lastError,          \* the message of lastError, NULL while it is null
  attempts,           \* what supabase.rpc answered, one entry per call of it
  retryResult,        \* { data, error } as returned
  \* the chat store (store/chat-store.ts)
  chats,
  selectedChatId,
  storeCall,          \* the last call of a store function, and whether every
                      \* call so far named a chat that was in chats
  \* what the model asked by llmReRankHotels answered, once it is called
  llmReply

serverVars ==
  <<version, useStream, userMessage, byLocation, pc, parserReply, hints,
    hintsReady, calls, rpcParams, rpcResult, hotels, combinedResults,
    validatedHotels, rerankedHotels,
    candidateHotels, summaryContext, finalHotels, events, streamState, response,
    frames>>

clientVars ==
  <<isConversationStarted, messages, pendingBaseQuery, isLoading,
    streamingMessageId, requests, clientLog>>

retryVars == <<maxRetries, retryPc, attempt, lastError, attempts, retryResult>>

storeVars == <<chats, selectedChatId, storeCall>>

\* the state outside the route and the chat component
libraryVars == <<retryVars, storeVars, llmReply>>

vars == <<serverVars, clientVars, libraryVars>>

\* the ref when it is null; the ids of the messages start at 1
NoMessage == 0

\* pendingBaseQuery when it is null: its one reader tests its truthiness,
\* which takes null and the empty text alike
NoQuery == <<>>

\* useState and useRef of ChatMain as the component mounts
InitChatMain ==
  /\ isConversationStarted = FALSE
  /\ messages = <<>>
  /\ pendingBaseQuery = NoQuery
  /\ isLoading = FALSE
  /\ streamingMessageId = NoMessage
  /\ requests = <<>>
  /\ clientLog = <<>>

\* no call of supabaseRpcWithRetry is running
NoRetryResult == [returned |-> FALSE, data |-> NULL, error |-> NULL]

InitRetryIdle ==
  /\ maxRetries = 0
  /\ retryPc = "idle"
  /\ attempt = 0
  /\ lastError = NULL
  /\ attempts = <<>>
  /\ retryResult = NoRetryResult

\* no function of the store has been called
NoStoreCall == [op |-> "none", id |-> NULL, onExisting |-> TRUE]

\* create(): the store as the module loads
InitChatStore ==
  /\ chats = <<>>
  /\ selectedChatId = NULL
  /\ storeCall = NoStoreCall

\* llmReRankHotels has not called the model
NoLlmReply == [kind |-> "none", order |-> <<>>]

InitLibrary == InitRetryIdle /\ InitChatStore /\ llmReply = NoLlmReply

NoHints ==
  [location |-> NULL, minPrice |-> None, maxPrice |-> None, price |-> None,
   tier |-> NULL, name |-> NULL, keywords |-> <<>>, amenities |-> <<>>,
   queryIntent |-> NULL, sortBy |-> NULL, priceTarget |-> None,
   sortByPrice |-> NULL]

NoReply == [kind |-> "none", parsed |-> NoParsed]

NoParams ==
  [p_location |-> NULL, p_min_price |-> None, p_max_price |-> None,
   p_tier |-> NULL, p_amenities |-> <<>>, p_limit |-> 0]

NoResponse == [status |-> 0, body |-> [type |-> "none"]]

StepEvent(step) == [type |-> "step", step |-> step]

Steps(names) == [i \in 1..Len(names) |-> StepEvent(names[i])]

Clarification(message, partialHints) ==
  [type |-> "clarification", message |-> message,
   missingFields |-> <<"location">>, partialHints |-> partialHints]

ErrorEvent(message) == [type |-> "error", message |-> message]

\* { error: message }, the body of a failed JSON request: it has no type
ErrorBody(message) == [type |-> NULL, error |-> message]

\* Math.round(combinedScore * 100)
MatchScore(hotel) == (hotel.combinedScore + ScoreScale \div 100) \div (ScoreScale \div 50)

\* a variant that sends the hotels last first
HotelEventsLastFirst(list) ==
  [i \in 1..Len(list) |->
     [type |-> "hotel", index |-> i - 1, hotel |-> list[Len(list) + 1 - i],
      matchScore |-> MatchScore(list[Len(list) + 1 - i])]]

HotelEvents(list) ==
  [i \in 1..Len(list) |->
     [type |-> "hotel", index |-> i - 1, hotel |-> list[i],
      matchScore |-> MatchScore(list[i])]]

Results(message, h, list) ==
  [type |-> "results", message |-> message, hints |-> h, hotels |-> list,
   matchReasons |->
     [i \in 1..Len(list) |->
        [hotelId |-> list[i].id, matchScore |-> MatchScore(list[i])]]]

\* the typed events among the chunks
TypedEvents == SelectSeq(events, LAMBDA e : e.type # "step")

EventsOfType(t) == SelectSeq(events, LAMBDA e : e.type = t)

\* `data: ${chunk}\n\n` and `data: [DONE]\n\n`
DataFrame(chunk) == [done |-> FALSE, data |-> chunk]
DoneFrame == [done |-> TRUE, data |-> [type |-> "[DONE]"]]

\* createStreamResponse: every chunk the generator yields in the step is
\* enqueued as it comes; when the generator returns, [DONE] is enqueued and
\* the stream is closed
StreamEnqueues ==
  frames' =
    frames
      \o [i \in 1..(Len(events') - Len(events)) |-> DataFrame(events'[Len(events) + i])]
      \o (IF streamState' = "closed" /\ streamState # "closed"
          THEN <<DoneFrame>> ELSE <<>>)

InitRequest ==
  /\ pc = "idle"
  /\ version = "v1"
  /\ useStream = TRUE
  /\ userMessage = <<>>
  /\ parserReply = NoReply
  /\ hints = NoHints
  /\ hintsReady = FALSE
  /\ rpcResult = "none"
  /\ calls = <<>>
  /\ rpcParams = NoParams
  /\ hotels = <<>>
  /\ combinedResults = <<>>
  /\ validatedHotels = <<>>
  /\ rerankedHotels = <<>>
  /\ candidateHotels = <<>>
  /\ summaryContext = NoSummaryContext
  /\ finalHotels = <<>>
  /\ events = <<>>
  /\ streamState = "none"
  /\ response = NoResponse
  /\ frames = <<>>

Init ==
  /\ InitRequest
  /\ byLocation = DocumentedMaxPrice
  /\ InitChatMain
  /\ InitLibrary

\* the generator returns: the stream gets its [DONE] frame and closes
Finish(chunks) ==
  /\ events' = events \o chunks
  /\ streamState' = "closed"
  /\ response' = [status |-> 200, body |-> [type |-> "stream"]]
  /\ pc' = "done"

\* the generator throws: the stream is errored, no [DONE] frame
Abort(chunks) ==
  /\ events' = events \o chunks
  /\ streamState' = "errored"
  /\ response' = [status |-> 200, body |-> [type |-> "stream"]]
  /\ pc' = "done"

\* Response.json(body, {status})
Respond(status, body) ==
  /\ response' = [status |-> status, body |-> body]
  /\ pc' = "done"
  /\ UNCHANGED <<events, streamState>>

(***************************************************************************)
(* POST and streamHotelSearch, one action per await.                       *)
(***************************************************************************)

EmptyObject == [empty |-> TRUE]

\* POST: the body is read; an empty message is answered at once, otherwise
\* the handler (the generator, when streaming) runs up to the parsing call.
\* The request carries no conversation history, so the later version
\* parses the message as it is.
Request(v, stream, message) ==
  /\ pc = "idle"
  /\ version' = v
  /\ useStream' = stream
  /\ userMessage' = message
  /\ IF message = <<>>
     THEN /\ IF stream
             THEN Finish(<<Clarification(AskQuery, EmptyObject)>>)
             ELSE Respond(400, Clarification(AskQuery, EmptyObject))
          /\ UNCHANGED calls
     ELSE /\ pc' = "parse"
          /\ calls' = Append(calls, "parse")
          /\ response' = IF stream THEN [status |-> 200, body |-> [type |-> "stream"]]
                         ELSE response
          /\ streamState' = IF stream THEN "open" ELSE streamState
          /\ events' = IF ~stream THEN events
                       ELSE IF v = "v1" THEN Steps(<<"parsing">>)
                       ELSE Steps(<<"context_summary", "context_summary_complete",
                                    "parsing">>)
  /\ UNCHANGED <<byLocation, parserReply, hints, hintsReady, rpcParams, rpcResult,
                 hotels, combinedResults, validatedHotels, rerankedHotels,
                 candidateHotels, summaryContext, finalHotels>>
  /\ StreamEnqueues
  /\ UNCHANGED <<clientVars, libraryVars>>

\* a variant that answers an exception by asking for the location
FailAsClarification ==
  IF useStream THEN Finish(<<Clarification(AskLocation, EmptyObject)>>)
  ELSE Respond(200, Clarification(AskLocation, EmptyObject))

\* an exception in the handler: the stream is errored, the JSON path
\* answers 500
Fail ==
  IF useStream THEN Abort(<<>>)
  ELSE Respond(500, ErrorBody("Unexpected server error"))

Interpret(v, query, parsed, byLoc) ==
  IF v = "v1" THEN parseHotelQueryWithOpenAI(query, parsed, byLoc)
  ELSE parseHotelQueryV2(query, parsed)

\* if (!hints.location): the clarification ends the request
AskForLocation(h) ==
  /\ IF useStream
     THEN Finish(<<StepEvent("parsing_complete"), Clarification(AskLocation, h)>>)
     ELSE Respond(200, Clarification(AskLocation, h))
  /\ UNCHANGED calls

GoOnToEmbedding ==
  /\ pc' = "embedding"
  /\ calls' = Append(calls, "embedding")
  /\ events' = IF useStream
               THEN events \o Steps(<<"parsing_complete", "embedding">>)
               ELSE events
  /\ UNCHANGED <<streamState, response>>

\* a variant that goes on to the embedding without a location
ParsedNoClarification(h) ==
  /\ hints' = h
  /\ hintsReady' = TRUE
  /\ GoOnToEmbedding

HintsParsed(h) ==
  /\ hints' = h
  /\ hintsReady' = TRUE
  /\ IF h.location = NULL THEN AskForLocation(h) ELSE GoOnToEmbedding

\* the parsing call returns: the hints, and the clarification when they
\* have no location
ParseReturn(reply) ==
  /\ pc = "parse"
  /\ parserReply' = reply
  /\ IF reply.kind # "json"
     THEN /\ Fail
          /\ UNCHANGED <<hints, hintsReady, calls>>
     ELSE HintsParsed(Interpret(version, userMessage, reply.parsed, byLocation))
  /\ UNCHANGED <<version, useStream, userMessage, byLocation, rpcParams, rpcResult,
                 hotels, combinedResults, validatedHotels, rerankedHotels,
                 candidateHotels,
                 summaryContext, finalHotels>>
  /\ StreamEnqueues
  /\ UNCHANGED <<clientVars, libraryVars>>

\* the hard constraints of the retrieval call; the first version also
\* sends the amenities
RpcParams(v, h) ==
  [p_location |-> h.location, p_min_price |-> h.minPrice,
   p_max_price |-> h.maxPrice, p_tier |-> h.tier,
   p_amenities |-> IF v = "v1" THEN h.amenities ELSE <<>>,
   p_limit |-> IF v = "v1" THEN 15 ELSE 20]

\* buildEmbeddingFromQuery returns (or throws): the retriever is called
EmbedReturn(ok) ==
  /\ pc = "embedding"
  /\ IF ~ok
     THEN /\ Fail
          /\ UNCHANGED <<calls, rpcParams>>
     ELSE /\ rpcParams' = RpcParams(version, hints)
          /\ calls' = Append(calls, "rpc")
          /\ pc' = "rpc"
          /\ events' = IF ~useStream THEN events
                       ELSE IF version = "v1"
                       THEN events \o Steps(<<"embedding_complete", "hybrid_search",
                                              "sql_query">>)
                       ELSE events \o Steps(<<"embedding_complete", "hybrid_search",
                                              "rpc_sql_code">>)
          /\ UNCHANGED <<streamState, response>>
  /\ UNCHANGED <<version, useStream, userMessage, byLocation, parserReply, hints,
                 hintsReady, rpcResult, hotels, combinedResults, validatedHotels,
                 rerankedHotels, candidateHotels, summaryContext, finalHotels>>
  /\ StreamEnqueues
  /\ UNCHANGED <<clientVars, libraryVars>>

\* the validation loop as a filter
IsValid(hotel) == validateHotelResult(hotel).valid

\* a variant that keeps every hotel
ValidatedAll(list) == list

Validated(list) == SelectSeq(list, IsValid)

SortForIntent(list, sortBy, Relevance(_, _)) ==
  IF sortBy = "price_desc" THEN ArraySort(list, ByPriceDesc)
  ELSE IF sortBy = "price_asc" THEN ArraySort(list, ByPriceAsc)
  ELSE ArraySort(list, Relevance)

KeepOrder(a, b) == 0

\* streamHotelSearch of the first version: the rows are sorted by price when
\* the intent asks for it, scored, and sorted by price or by score
RankV1Stream(rows, h, query) ==
  SortForIntent(ScoreAll(SortForIntent(rows, h.sortBy, KeepOrder), h.keywords, query),
                h.sortBy, ByScoreDesc)

\* the non-streaming path of the first version
RankV1Json(rows, h, query) ==
  ArraySort(ScoreAll(rows, h.keywords, query), ByScoreDesc)

\* streamHotelSearch of the later version: the rows are sorted by
\* similarity in place for the step event, then scored and sorted
RankV2Stream(rows, h, query) ==
  ArraySort(ScoreAll(ArraySort(rows, BySimilarityDesc), h.keywords, query),
            ByScoreThenPrice)

\* the non-streaming path of the later version
RankV2Json(rows, h, query) ==
  ArraySort(ScoreAll(rows, h.keywords, query), ByNearScorePrice)

Rank(v, stream, rows, h, query) ==
  IF v = "v1"
  THEN IF stream THEN RankV1Stream(rows, h, query) ELSE RankV1Json(rows, h, query)
  ELSE IF stream THEN RankV2Stream(rows, h, query) ELSE RankV2Json(rows, h, query)

\* the array `hotels` after the in-place sorts of the streaming paths
MappedRows(v, stream, rows, h) ==
  IF ~stream THEN rows
  ELSE IF v = "v1" THEN SortForIntent(rows, h.sortBy, KeepOrder)
  ELSE ArraySort(rows, BySimilarityDesc)

\* TRUE when llmReRankHotels asks the ranking model
RerankCallsLlm(list, query, h) ==
  Len(list) > 1 /\ h.sortByPrice = NULL /\ needsLLMReranking(query, h)

\* first version, streaming: context filter, hotel events, results
FinishV1Stream(limited, context) ==
  /\ candidateHotels' = limited
  /\ summaryContext' = context
  /\ finalHotels' = context.relevantHotels
  /\ Finish(Steps(<<"sql_results", "vector_results", "bm25_results",
                    "combined_ranking", "validating", "validation_complete",
                    "summary_context", "summary_context_complete", "found">>)
            \o HotelEvents(context.relevantHotels)
            \o <<Results(generateNaturalResponse("v1", context.relevantHotels),
                         hints, context.relevantHotels)>>)
  /\ UNCHANGED calls

\* first version, JSON
FinishV1Json(limited) ==
  /\ finalHotels' = limited
  /\ Respond(200, Results(generateNaturalResponse("v1", limited), hints, limited))
  /\ UNCHANGED <<calls, candidateHotels, summaryContext>>

\* later version, streaming: on to llmReRankHotels
GoOnToRerank(validated) ==
  /\ pc' = "rerank"
  /\ calls' = IF RerankCallsLlm(validated, userMessage, hints)
              THEN Append(calls, "rerank") ELSE calls
  /\ events' = events \o Steps(<<"rpc_similarity_scores", "bm25_results",
                                 "combined_ranking", "validating",
                                 "validation_complete", "llm_reranking">>)
  /\ UNCHANGED <<candidateHotels, summaryContext, finalHotels, streamState,
                 response>>

\* later version, JSON: on to generateNaturalResponse
GoOnToResponse(limited) ==
  /\ pc' = "respond"
  /\ finalHotels' = limited
  /\ calls' = IF Len(limited) > 0 THEN Append(calls, "response") ELSE calls
  /\ UNCHANGED <<candidateHotels, summaryContext, events, streamState, response>>

Selected(validated, limited) ==
  /\ validatedHotels' = validated
  /\ IF version = "v1" /\ useStream
     THEN FinishV1Stream(limited, buildSummaryContext(userMessage, hints, limited))
     ELSE IF version = "v1" THEN FinishV1Json(limited)
     ELSE IF useStream THEN GoOnToRerank(validated)
     ELSE GoOnToResponse(limited)

ValidatedRows(validated) == Selected(validated, LimitResults(validated))

Ranked(ranked) ==
  /\ combinedResults' = ranked
  /\ ValidatedRows(Validated(ranked))

\* the rows are there: mapped, then scored, sorted, validated and cut
Retrieved(rows) ==
  /\ hotels' = MappedRows(version, useStream, rows, hints)
  /\ Ranked(Rank(version, useStream, rows, hints, userMessage))

\* a variant that takes a failed retrieval for one without rows
RetrievalFailedAsEmpty == Retrieved(<<>>)

\* if (error): the error event or the 503 ends the request
RetrievalFailed ==
  /\ IF useStream THEN Finish(<<ErrorEvent(SearchFailedRetry)>>)
     ELSE Respond(503, ErrorBody(SearchFailed))
  /\ UNCHANGED <<calls, hotels, combinedResults, validatedHotels, candidateHotels,
                 summaryContext, finalHotels>>

\* supabaseRpcWithRetry returns: an error, or the rows, which are scored,
\* sorted, validated and cut.  The first version then finishes the request;
\* the later one goes on to the re-ranking (streaming) or to the response
\* text.
RpcReturn(failed, table) ==
  /\ pc = "rpc"
  /\ rpcResult' = IF failed THEN "error" ELSE "data"
  /\ IF failed THEN RetrievalFailed
     ELSE Retrieved(match_hotels_hybrid(rpcParams, table))
  /\ UNCHANGED <<version, useStream, userMessage, byLocation, parserReply, hints,
                 hintsReady, rpcParams, rerankedHotels>>
  /\ StreamEnqueues
  /\ UNCHANGED <<clientVars, libraryVars>>

Limited(limited) ==
  /\ finalHotels' = limited
  /\ calls' = IF Len(limited) > 0 THEN Append(calls, "response") ELSE calls

Reranked(reranked) ==
  /\ rerankedHotels' = reranked
  /\ Limited(LimitResults(reranked))

\* llmReRankHotels returns (later version, streaming): the list is cut to
\* the configured size and the response text is asked for
RerankReturn(reply) ==
  /\ pc = "rerank"
  /\ RerankCallsLlm(validatedHotels, userMessage, hints) \/ reply = LlmEmpty
  /\ Reranked(llmReRankHotels(validatedHotels, userMessage, hints, reply))
  /\ events' = events \o Steps(<<"llm_reranking_complete", "generating_response">>)
  /\ pc' = "respond"
  /\ UNCHANGED <<version, useStream, userMessage, byLocation, parserReply, hints,
                 hintsReady, rpcParams, rpcResult, hotels, combinedResults,
                 validatedHotels, candidateHotels, summaryContext, streamState,
                 response>>
  /\ StreamEnqueues
  /\ llmReply' = IF RerankCallsLlm(validatedHotels, userMessage, hints)
                 THEN reply ELSE NoLlmReply
  /\ UNCHANGED <<clientVars, retryVars, storeVars>>

\* the response text is there (later version): the hotels and the results
\* are sent
RespondReturn ==
  /\ pc = "respond"
  /\ IF useStream
     THEN Finish(<<[type |-> "response_chunk",
                    chunk |-> generateNaturalResponse("v2", finalHotels)],
                   [type |-> "response_complete",
                    message |-> generateNaturalResponse("v2", finalHotels)],
                   StepEvent("found")>>
                 \o HotelEvents(finalHotels)
                 \o <<Results(generateNaturalResponse("v2", finalHotels), hints,
                              finalHotels)>>)
     ELSE Respond(200, Results(generateNaturalResponse("v2", finalHotels), hints,
                               finalHotels))
  /\ UNCHANGED <<version, useStream, userMessage, byLocation, parserReply, hints,
                 hintsReady, calls, rpcParams, rpcResult, hotels, combinedResults,
                 validatedHotels, rerankedHotels, candidateHotels, summaryContext,
                 finalHotels>>
  /\ StreamEnqueues
  /\ UNCHANGED <<clientVars, libraryVars>>

Next ==
  \/ \E v \in {"v1", "v2"}, stream \in BOOLEAN, message \in Queries :
       Request(v, stream, message)
  \/ \E reply \in ParserReplies : ParseReturn(reply)
  \/ \E ok \in BOOLEAN : EmbedReturn(ok)
  \/ pc = "rpc" /\ \E table \in RowSets[hints.location] : RpcReturn(FALSE, table)
  \/ RpcReturn(TRUE, <<>>)
  \/ pc = "rerank" /\ \E reply \in LlmReplies : RerankReturn(reply)
  \/ RespondReturn

Spec == Init /\ [][Next]_vars

(***************************************************************************)
(* The interpreter on its own: a query and a reply of the parsing model    *)
(* are drawn, one step applies parseHotelQueryWithOpenAI to them.          *)
(***************************************************************************)

\* the queries: every amount after "around", and the other patterns
InterpreterQueries ==
  {<<"hotel", "around", "$" \o ToString(n), "in", "Brisbane">> : n \in 0..MaxTarget}
    \cup {<<"hotel", "about", ToString(n)>> : n \in {0, 1, 7, 99}}
    \cup {<<"hotel", "~$" \o ToString(n)>> : n \in {0, 3, 250}}
    \cup { <<"hotel", "around", "$0", "approximately", "$120">>,
           <<"hotel", "around", "town">>,
           <<"cheapest", "hotel", "in", "Melbourne">>,
           <<"most", "expensive", "hotel">>,
           <<"most", "affordable", "luxury", "hotel", "around", "$200">>,
           <<"budget", "hotel", "around", "$80">>,
           <<"quiet", "hotel", "in", "Sydney">> }

\* replies whose prices and tier are off the schema
OffSchemaReplies ==
  { Reply([Parsed(JStr("Melbourne"), JNum(0), JNum(-40), JStr("Deluxe"),
                  JArr(<<"Pool", "WiFi">>), JNull) EXCEPT !.price = JNum(0)]),
    Reply([Parsed(JStr("Sydney"), JStr("100"), JStr("300"), JNum(3),
                  JArr(<<"Spa">>), JNull) EXCEPT !.price = JNum(-20)]),
    Reply([Parsed(JStr("Brisbane"), JNum(-1), JNum(1), JStr("mid tier"),
                  JArr(<<"Garden">>), JNull) EXCEPT !.price = JNum(180)]) }

InterpreterReplies ==
  {r \in ParserReplies : r.kind = "json"} \cup OffSchemaReplies

InitInterpreter ==
  /\ pc = "parse"
  /\ version \in {"v1", "v2"}
  /\ useStream = FALSE
  /\ userMessage \in InterpreterQueries
  /\ byLocation \in StatisticsTables
  /\ parserReply \in InterpreterReplies
  /\ hints = NoHints
  /\ hintsReady = FALSE
  /\ calls = <<"parse">>
  /\ rpcParams = NoParams
  /\ rpcResult = "none"
  /\ hotels = <<>>
  /\ combinedResults = <<>>
  /\ validatedHotels = <<>>
  /\ rerankedHotels = <<>>
  /\ candidateHotels = <<>>
  /\ summaryContext = NoSummaryContext
  /\ finalHotels = <<>>
  /\ events = <<>>
  /\ streamState = "none"
  /\ response = NoResponse
  /\ frames = <<>>
  /\ InitChatMain
  /\ InitLibrary

InterpreterFrame ==
  UNCHANGED <<clientVars, libraryVars, version, useStream, userMessage, byLocation, parserReply, calls,
              rpcParams, rpcResult, hotels, combinedResults, validatedHotels,
              rerankedHotels, candidateHotels, summaryContext, finalHotels,
              events, streamState, response, frames>>

InterpretV1 ==
  /\ pc = "parse"
  /\ version = "v1"
  /\ hints' = parseHotelQueryWithOpenAI(userMessage, parserReply.parsed, byLocation)
  /\ hintsReady' = TRUE
  /\ pc' = "parsed"
  /\ InterpreterFrame

InterpretV2 ==
  /\ pc = "parse"
  /\ version = "v2"
  /\ hints' = parseHotelQueryV2(userMessage, parserReply.parsed)
  /\ hintsReady' = TRUE
  /\ pc' = "parsed"
  /\ InterpreterFrame

NextInterpreter == InterpretV1 \/ InterpretV2

SpecInterpreter == InitInterpreter /\ [][NextInterpreter]_vars

(***************************************************************************)
(* The scorers on their own: two candidates, the keywords and the query    *)
(* are drawn; one step scores the candidates, validates them and cuts the  *)
(* list.                                                                   *)
(***************************************************************************)

\* the most words a description of the drawn candidates has
MaxWords == 3

\* descriptions of "quiet" and of a word of the same length
ScoringDescriptions ==
  UNION {[1..n -> {"quiet", "plain"}] : n \in 1..MaxWords}

\* -1, 0, 1 and a value between; 1.5 is out of range
ScoringSimilarities == {-100, 0, 37, 100, 150}

ScoringHotels ==
  {Hotel(1, "Inn", d, "Melbourne", 100, NULL, <<"Pool">>, sim) :
     d \in ScoringDescriptions, sim \in ScoringSimilarities}

ScoringKeywords ==
  {<<>>, <<"quiet">>, <<"spa">>, <<"quiet", "pool">>, <<"quiet", "spa">>}

\* the first has no word longer than two characters
ScoringQueries == {<<"hi">>, <<"quiet", "stay">>}

InitScoring ==
  /\ pc = "score"
  /\ version = "v1"
  /\ useStream = FALSE
  /\ userMessage \in ScoringQueries
  /\ byLocation = DocumentedMaxPrice
  /\ parserReply = NoReply
  /\ \E keywords \in ScoringKeywords :
       hints = [NoHints EXCEPT !.location = "Melbourne", !.keywords = keywords]
  /\ hintsReady = TRUE
  /\ calls = <<>>
  /\ rpcParams = NoParams
  /\ rpcResult = "data"
  /\ \E a \in ScoringHotels, b \in ScoringHotels :
       hotels = <<a, [b EXCEPT !.id = 2]>>
  /\ combinedResults = <<>>
  /\ validatedHotels = <<>>
  /\ rerankedHotels = <<>>
  /\ candidateHotels = <<>>
  /\ summaryContext = NoSummaryContext
  /\ finalHotels = <<>>
  /\ events = <<>>
  /\ streamState = "none"
  /\ response = NoResponse
  /\ frames = <<>>
  /\ InitChatMain
  /\ InitLibrary

\* route.ts 590-620: scores, sort, validation, cut
ScoreCandidates ==
  /\ pc = "score"
  /\ combinedResults' = RankV1Json(hotels, hints, userMessage)
  /\ validatedHotels' = Validated(combinedResults')
  /\ finalHotels' = LimitResults(validatedHotels')
  /\ pc' = "scored"
  /\ UNCHANGED <<version, useStream, userMessage, byLocation, parserReply, hints,
                 hintsReady, calls, rpcParams, rpcResult, hotels, rerankedHotels,
                 candidateHotels, summaryContext, events, streamState, response,
                 frames, clientVars, libraryVars>>

NextScoring == ScoreCandidates

SpecScoring == InitScoring /\ [][NextScoring]_vars

(***************************************************************************)
(* ChatMain, the client (chat-main.tsx): the user sends messages from the  *)
(* welcome screen and from the conversation view, each send starts a       *)
(* search whose stream is read frame by frame.  What the server answers    *)
(* is an input here: a clarification, the results, an error event, or a    *)
(* failure of the fetch or of the stream.  A text is the sequence of its   *)
(* words, so `${a} ${b}` is a \o b.                                        *)
(***************************************************************************)

\* the searches and the resets of one run
MaxRequests == 2
MaxResets == 1

\* what the user types: never blank, the views do not send a blank text
ClientContents == {<<"hotel", "under", "$200">>, <<"Melbourne">>}

Message(id, content, sender, isStreaming) ==
  [id |-> id, content |-> content, sender |-> sender, isStreaming |-> isStreaming]

\* every search appends the user's message and a placeholder, and nothing
\* else appends: the ids, unique in the code, are numbered in that order
UserMessageId == 2 * Len(requests) + 1
PlaceholderId == 2 * Len(requests) + 2

updateMessage(list, id, content, isStreaming) ==
  [i \in 1..Len(list) |->
     IF list[i].id = id
     THEN [list[i] EXCEPT !.content = content, !.isStreaming = isStreaming]
     ELSE list[i]]

\* a variant that never prepends the pending query
fullQueryAlone(pending, content) == content

\* pendingBaseQuery ? `${pendingBaseQuery} ${content}` : content
fullQuery(pending, content) ==
  IF pending # NoQuery THEN pending \o content ELSE content

\* callHotelSearchStreaming up to its fetch: the flag, the placeholder, the
\* ref; the user's message has been appended by the handler
callHotelSearchStreaming(userContent, content, view) ==
  /\ isLoading' = TRUE
  /\ messages' = messages \o <<Message(UserMessageId, content, "user", FALSE),
                               Message(PlaceholderId, <<>>, "ai", TRUE)>>
  /\ streamingMessageId' = PlaceholderId
  /\ requests' = Append(requests,
                        [query |-> userContent, content |-> content,
                         view |-> view, messageId |-> PlaceholderId,
                         sentAfter |-> Len(clientLog), state |-> "reading",
                         terminal |-> "none"])

\* handleSend, of the welcome screen
handleSend(content) ==
  /\ ~isConversationStarted
  /\ ~isLoading
  /\ Len(requests) < MaxRequests
  /\ isConversationStarted' = TRUE
  /\ callHotelSearchStreaming(content, content, "welcome")
  /\ UNCHANGED <<pendingBaseQuery, clientLog, serverVars, libraryVars>>

\* handleSendMessage, of the conversation view
handleSendMessage(content) ==
  /\ isConversationStarted
  /\ ~isLoading
  /\ Len(requests) < MaxRequests
  /\ callHotelSearchStreaming(fullQuery(pendingBaseQuery, content), content,
                              "conversation")
  /\ UNCHANGED <<isConversationStarted, pendingBaseQuery, clientLog, serverVars, libraryVars>>

\* the read loop of search k reaches the terminal event of its stream
ReadEvent(k, type) ==
  /\ requests[k].state = "reading"
  /\ requests[k].terminal = "none"
  /\ messages' = updateMessage(messages, requests[k].messageId, <<type>>, FALSE)
  /\ pendingBaseQuery' = IF type = "clarification" THEN requests[k].query
                         ELSE IF type = "results" THEN NoQuery
                         ELSE pendingBaseQuery
  /\ requests' = [requests EXCEPT ![k].terminal = type]
  /\ clientLog' = Append(clientLog, [type |-> type, request |-> k])
  /\ UNCHANGED <<isConversationStarted, isLoading, streamingMessageId, serverVars, libraryVars>>

\* search k ends: the stream is done, or the fetch or a read has failed
\* (catch); then finally
SearchEnds(k, failed) ==
  /\ requests[k].state = "reading"
  /\ failed \/ requests[k].terminal # "none"
  /\ messages' = IF failed
                 THEN updateMessage(messages, streamingMessageId, <<"trouble">>, FALSE)
                 ELSE messages
  /\ isLoading' = FALSE
  /\ streamingMessageId' = NoMessage
  /\ requests' = [requests EXCEPT ![k].state = "finished"]
  /\ UNCHANGED <<isConversationStarted, pendingBaseQuery, clientLog, serverVars, libraryVars>>

Resets == Len(SelectSeq(clientLog, LAMBDA e : e.type = "reset"))

\* handleReset, handed to the conversation view; only the later version
\* clears the ref
handleReset ==
  /\ isConversationStarted
  /\ Resets < MaxResets
  /\ isConversationStarted' = FALSE
  /\ messages' = <<>>
  /\ pendingBaseQuery' = NoQuery
  /\ isLoading' = FALSE
  /\ streamingMessageId' = IF version = "v1" THEN streamingMessageId ELSE NoMessage
  /\ clientLog' = Append(clientLog, [type |-> "reset", request |-> 0])
  /\ UNCHANGED <<requests, serverVars, libraryVars>>

InitClient ==
  /\ version \in {"v1", "v2"}
  /\ pc = "idle"
  /\ useStream = TRUE
  /\ userMessage = <<>>
  /\ byLocation = DocumentedMaxPrice
  /\ parserReply = NoReply
  /\ hints = NoHints
  /\ hintsReady = FALSE
  /\ calls = <<>>
  /\ rpcParams = NoParams
  /\ rpcResult = "none"
  /\ hotels = <<>>
  /\ combinedResults = <<>>
  /\ validatedHotels = <<>>
  /\ rerankedHotels = <<>>
  /\ candidateHotels = <<>>
  /\ summaryContext = NoSummaryContext
  /\ finalHotels = <<>>
  /\ events = <<>>
  /\ streamState = "none"
  /\ response = NoResponse
  /\ frames = <<>>
  /\ InitChatMain
  /\ InitLibrary

NextClient ==
  \/ \E content \in ClientContents : handleSend(content)
  \/ \E content \in ClientContents : handleSendMessage(content)
  \/ \E k \in DOMAIN requests, type \in {"clarification", "results", "error"} :
       ReadEvent(k, type)
  \/ \E k \in DOMAIN requests, failed \in BOOLEAN : SearchEnds(k, failed)
  \/ handleReset

SpecClient == InitClient /\ [][NextClient]_vars

(***************************************************************************)
(* Properties of the result selection (route.ts).                          *)
(***************************************************************************)

\* the retriever has answered with rows, and the handler has ranked,
\* validated and cut them
RowsHandled == rpcResult = "data" /\ pc \in {"respond", "done"}

\* the list the truncation step reads and the list it writes
TruncationInput ==
  IF version = "v2" /\ useStream THEN rerankedHotels ELSE validatedHotels

TruncationOutput ==
  IF version = "v1" /\ useStream THEN candidateHotels ELSE finalHotels

\* C1 as stated: with k candidates before the truncation, the truncated
\* list has min(maxResults, max(minResults, k)) hotels and never more than k.
C1_SizeAsStated ==
  RowsHandled =>
    /\ Len(TruncationOutput)
         = Min2(maxResults, Max2(minResults, Len(TruncationInput)))
    /\ Len(TruncationOutput) <= Len(TruncationInput)

\* C1, amended: the truncated list is the first min(maxResults, k) of the k
\* candidates, which is min(maxResults, max(minResults, k)) once k reaches
\* minResults and k below that.
C1_TruncationSize ==
  RowsHandled =>
    /\ Len(TruncationOutput) = Min2(maxResults, Len(TruncationInput))
    /\ Len(TruncationInput) >= minResults =>
         Len(TruncationOutput)
           = Min2(maxResults, Max2(minResults, Len(TruncationInput)))
    /\ TruncationOutput = SubSeq(TruncationInput, 1, Len(TruncationOutput))

C1_Witness ==
  /\ RowsHandled
  /\ Len(TruncationInput) > maxResults
  /\ Len(TruncationOutput) = maxResults

\* the hotel contradicts a tag of the query
Contradicts(query, hotel) == FilterReason(QueryIntents(query), hotel) # ""

\* buildSummaryContext has run (first version, streaming)
ContextBuilt == version = "v1" /\ useStream /\ rpcResult = "data"

\* C2: when the context rules would remove every hotel of a non-empty
\* candidate list, relevantHotels is the candidate list unchanged; the filter
\* never turns a non-empty list into an empty one.
C2_ContextFallback ==
  (ContextBuilt /\ candidateHotels # <<>>) =>
    /\ summaryContext.relevantHotels # <<>>
    /\ (\A i \in DOMAIN candidateHotels : Contradicts(userMessage, candidateHotels[i]))
         => /\ summaryContext.relevantHotels = candidateHotels
            /\ finalHotels = candidateHotels

C2_Witness ==
  /\ ContextBuilt
  /\ Len(candidateHotels) >= 2
  /\ \A i \in DOMAIN candidateHotels : Contradicts(userMessage, candidateHotels[i])
  /\ finalHotels = candidateHotels

\* the band of the hotel's tier; a null tier has none
InTierBand(hotel) ==
  /\ hotel.tier = "Budget" =>
       hotel.price_per_night >= 0 /\ hotel.price_per_night <= 150
  /\ hotel.tier = "Mid-tier" =>
       hotel.price_per_night >= 150 /\ hotel.price_per_night <= 400
  /\ hotel.tier = "Luxury" => hotel.price_per_night >= 300

ChecksButName(hotel) ==
  /\ hotel.price_per_night > 0
  /\ InTierBand(hotel)
  /\ hotel.location \in {"Melbourne", "Sydney", "Brisbane"}
  /\ hotel.similarity >= 0 - 100
  /\ hotel.similarity <= 100

PassesAsStated(hotel) == ChecksButName(hotel) /\ hotel.name # ""

PassesChecks(hotel) ==
  /\ ChecksButName(hotel)
  /\ \E i \in 1..Len(hotel.name) : SubSeq(hotel.name, i, i) # " "

RanksByRelevance ==
  /\ rpcResult = "data"
  /\ version = "v1" => hints.sortBy = "relevance"
  /\ version = "v2" => hints.sortByPrice = NULL

\* C4: on every path that ranks by relevance, a hotel with a higher combined
\* score comes first, and of two hotels with exactly the same combined score
\* the cheaper one comes first.
C4_TieBreak ==
  RanksByRelevance =>
    \A i, j \in DOMAIN validatedHotels :
      i < j =>
        \/ validatedHotels[i].combinedScore > validatedHotels[j].combinedScore
        \/ /\ validatedHotels[i].combinedScore = validatedHotels[j].combinedScore
           /\ validatedHotels[i].price_per_night <= validatedHotels[j].price_per_night

PriceOrder ==
  IF version = "v1"
  THEN IF hints.sortBy = "price_asc" THEN "asc"
       ELSE IF hints.sortBy = "price_desc" THEN "desc" ELSE NULL
  ELSE hints.sortByPrice

\* C5: when the interpreter reports a price order, every two adjacent hotels
\* of the returned list are in that order of price.
C5_PriceOrder ==
  (rpcResult = "data" /\ pc = "done") =>
    \A i \in 1..(Len(finalHotels) - 1) :
      /\ PriceOrder = "asc" =>
           finalHotels[i].price_per_night <= finalHotels[i + 1].price_per_night
      /\ PriceOrder = "desc" =>
           finalHotels[i].price_per_night >= finalHotels[i + 1].price_per_night

\* C6: when the interpreter returns hints without a location, the request
\* ends with one clarification whose missingFields is ["location"] and whose
\* partialHints are the hints; no embedding or retrieval call is issued and
\* no hotel, results or error event is sent.
C6_Clarification ==
  (hintsReady /\ hints.location = NULL) =>
    /\ pc = "done"
    /\ calls = <<"parse">>
    /\ rpcResult = "none"
    /\ IF useStream
       THEN /\ TypedEvents = << [type |-> "clarification", message |-> AskLocation,
                                 missingFields |-> <<"location">>,
                                 partialHints |-> hints] >>
            /\ streamState = "closed"
       ELSE /\ events = <<>>
            /\ response.body = [type |-> "clarification", message |-> AskLocation,
                                missingFields |-> <<"location">>,
                                partialHints |-> hints]

C6_Witness ==
  /\ hintsReady
  /\ hints.location = NULL
  /\ hints.maxPrice = Some(200)
  /\ useStream
  /\ Len(EventsOfType("clarification")) = 1

\* C10: when the location is known and no retrieved hotel survives the
\* validation, the request ends with a results response that has no hotel and
\* the "couldn't find any hotels" message, not with an error or a
\* clarification.
C10_NoCandidates ==
  (rpcResult = "data" /\ validatedHotels = <<>>) =>
    /\ hints.location # NULL
    /\ EventsOfType("error") = <<>>
    /\ EventsOfType("clarification") = <<>>
    /\ EventsOfType("hotel") = <<>>
    /\ pc \in {"rerank", "respond", "done"}
    /\ pc = "done" =>
         LET body == [type |-> "results",
                      message |-> IF version = "v1" THEN NotFoundV1 ELSE NotFoundV2,
                      hints |-> hints, hotels |-> <<>>, matchReasons |-> <<>>]
         IN IF useStream
            THEN /\ streamState = "closed"
                 /\ EventsOfType("results") = <<body>>
                 /\ events[Len(events)] = body
            ELSE response = [status |-> 200, body |-> body]

C10_Witness ==
  /\ rpcResult = "data"
  /\ pc = "done"
  /\ Len(hotels) > 0
  /\ validatedHotels = <<>>
  /\ version = "v2"

(***************************************************************************)
(* Properties of the interpreter (lib/hotel-query.ts).                     *)
(***************************************************************************)

\* the interpreter of lib/hotel-query.ts has returned
Interpreted == version = "v1" /\ hintsReady

\* what the interpreter holds before the intent is applied
ParserHints == SanitizedHints(parserReply.parsed)

\* Math.floor(0.8 * x) and Math.ceil(1.2 * x), by their definitions
FloorOfFourFifths(x) == CHOOSE n \in 0..x : 5 * n <= 4 * x /\ 4 * x < 5 * (n + 1)
CeilOfSixFifths(x) == CHOOSE n \in x..(2 * x) : 5 * (n - 1) < 6 * x /\ 6 * x <= 5 * n

\* C7: for a price_range intent with target P the hints carry
\* minPrice = floor(0.8 P) and maxPrice = ceil(1.2 P), whatever the parser
\* gave, and minPrice <= P <= maxPrice.
C7_PriceRange ==
  (Interpreted /\ hints.queryIntent = "price_range") =>
    /\ hints.priceTarget.has
    /\ hints.priceTarget.v > 0
    /\ hints.minPrice = Some(FloorOfFourFifths(hints.priceTarget.v))
    /\ hints.maxPrice = Some(CeilOfSixFifths(hints.priceTarget.v))
    /\ hints.minPrice.v <= hints.priceTarget.v
    /\ hints.priceTarget.v <= hints.maxPrice.v

C7_Witness ==
  /\ Interpreted
  /\ userMessage = <<"hotel", "around", "$200", "in", "Brisbane">>
  /\ ParserHints.minPrice = Some(100)
  /\ ParserHints.maxPrice = Some(300)
  /\ hints.priceTarget = Some(200)
  /\ hints.minPrice = Some(160)
  /\ hints.maxPrice = Some(240)

\* C8: with a known location that has statistics, most_expensive sets the
\* tier to Luxury, minPrice to max(floor(0.8 * locationMax), 30) and sortBy
\* to price_desc; cheapest sets the tier to Budget, maxPrice to 50 and sortBy
\* to price_asc, whatever the parser gave.
C8_Superlatives ==
  (Interpreted /\ hints.location \in DOMAIN byLocation) =>
    /\ hints.queryIntent = "most_expensive" =>
         /\ hints.tier = "Luxury"
         /\ hints.minPrice
              = Some(Max2(FloorOfFourFifths(byLocation[hints.location]), 30))
         /\ hints.maxPrice = ParserHints.maxPrice
         /\ hints.sortBy = "price_desc"
    /\ hints.queryIntent = "cheapest" =>
         /\ hints.tier = "Budget"
         /\ hints.maxPrice = Some(50)
         /\ hints.minPrice = ParserHints.minPrice
         /\ hints.sortBy = "price_asc"

C8_Witness ==
  /\ Interpreted
  /\ hints.location = "Brisbane"
  /\ hints.queryIntent = "most_expensive"
  /\ ParserHints.tier = "Budget"
  /\ ParserHints.minPrice = Some(100)
  /\ hints.tier = "Luxury"
  /\ hints.minPrice = Some(30)

\* C9 as stated: without a location the hints keep the parser's tier,
\* minPrice and maxPrice and sortBy stays relevance, for every intent.
C9_NoOverrideAsStated ==
  (Interpreted /\ hints.location = NULL) =>
    /\ hints.tier = ParserHints.tier
    /\ hints.minPrice = ParserHints.minPrice
    /\ hints.maxPrice = ParserHints.maxPrice
    /\ hints.sortBy = "relevance"

\* C9, amended: without a location a superlative leaves the parser's tier,
\* minPrice and maxPrice alone but still sets sortBy (price_desc for
\* most_expensive, price_asc for cheapest); a price_range intent still sets
\* minPrice and maxPrice from its target and keeps the tier; a normal query
\* keeps all three and sortBy is relevance.
C9_NoLocation ==
  (Interpreted /\ hints.location = NULL) =>
    /\ hints.tier = ParserHints.tier
    /\ hints.queryIntent # "price_range" =>
         /\ hints.minPrice = ParserHints.minPrice
         /\ hints.maxPrice = ParserHints.maxPrice
    /\ hints.queryIntent = "price_range" =>
         /\ hints.minPrice = Some(FloorOfFourFifths(hints.priceTarget.v))
         /\ hints.maxPrice = Some(CeilOfSixFifths(hints.priceTarget.v))
    /\ hints.sortBy = IF hints.queryIntent = "most_expensive" THEN "price_desc"
                      ELSE IF hints.queryIntent = "cheapest" THEN "price_asc"
                      ELSE "relevance"

C9_Witness ==
  /\ Interpreted
  /\ hints.location = NULL
  /\ hints.queryIntent = "cheapest"
  /\ ParserHints.maxPrice = Some(200)
  /\ hints.maxPrice = Some(200)
  /\ hints.tier = NULL
  /\ hints.sortBy = "price_asc"

(***************************************************************************)
(* Properties of the error handling (route.ts).                            *)
(***************************************************************************)

\* the request has ended with a results response
EndedWithResults ==
  /\ pc = "done"
  /\ IF useStream
     THEN /\ streamState = "closed"
          /\ Len(EventsOfType("results")) = 1
          /\ events[Len(events)].type = "results"
     ELSE response.status = 200 /\ response.body.type = "results"

\* the results object of the response
ResultsSent ==
  IF useStream THEN EventsOfType("results")[1] ELSE response.body

\* where the hotel with this id stands in the scored list, 0 when nowhere
RankOf(id) ==
  IF \E i \in DOMAIN combinedResults : combinedResults[i].id = id
  THEN CHOOSE i \in DOMAIN combinedResults : combinedResults[i].id = id
  ELSE 0

CallsTo(name) == Len(SelectSeq(calls, LAMBDA c : c = name))

\* C12: when the retriever wrapper reports an error the request is over:
\* the stream holds exactly one event of type error, which is its last
\* chunk, and is closed; the JSON path answers 503; no hotel and no results
\* event is sent; the wrapper was called exactly once.
C12_RetrievalError ==
  rpcResult = "error" =>
    /\ pc = "done"
    /\ CallsTo("rpc") = 1
    /\ EventsOfType("hotel") = <<>>
    /\ EventsOfType("results") = <<>>
    /\ finalHotels = <<>>
    /\ IF useStream
       THEN /\ Len(EventsOfType("error")) = 1
            /\ events[Len(events)].type = "error"
            /\ streamState = "closed"
       ELSE /\ response.status = 503
            /\ response.body.type # "results"
            /\ events = <<>>

\* the retrieval has failed on a JSON request of the later version
C12_Witness ==
  /\ rpcResult = "error"
  /\ version = "v2"
  /\ ~useStream
  /\ response.status = 503
  /\ CallsTo("rpc") = 1

ParseFailed == parserReply.kind \in {"throw", "empty", "invalid"}

\* C13: when the parsing call throws, returns no content or returns
\* content that is not JSON, the request is over: the parsing call was made
\* once, no embedding and no retrieval call was made, no results,
\* clarification or hotel chunk was sent; the stream has ended (errored,
\* without its [DONE] frame) and the JSON path has answered 500 with an
\* error body.
C13_ParseFailure ==
  ParseFailed =>
    /\ pc = "done"
    /\ calls = <<"parse">>
    /\ ~hintsReady
    /\ rpcResult = "none"
    /\ finalHotels = <<>>
    /\ IF useStream
       THEN /\ streamState = "errored"
            /\ TypedEvents = <<>>
            /\ response.status = 200
       ELSE /\ response = [status |-> 500, body |-> ErrorBody("Unexpected server error")]
            /\ events = <<>>

\* content that is not JSON, on a streamed request
C13_Witness ==
  /\ ParseFailed
  /\ useStream
  /\ streamState = "errored"
  /\ parserReply.kind = "invalid"

(***************************************************************************)
(* Properties of the client (chat-main.tsx).                               *)
(***************************************************************************)

\* the clarifications, the results and the resets among the first n
\* entries of the log: what decides how the next message is submitted
Deciding(n) ==
  SelectSeq(SubSeq(clientLog, 1, n),
            LAMBDA e : e.type \in {"clarification", "results", "reset"})

\* TRUE when the last of them is a clarification
Asked(n) ==
  Deciding(n) # <<>> /\ Deciding(n)[Len(Deciding(n))].type = "clarification"

\* the query that clarification was given for
AskedFor(n) == requests[Deciding(n)[Len(Deciding(n))].request].query

\* C14: a message M sent from the conversation view is submitted as "Q M"
\* when the last clarification or results event read before it (in this
\* conversation) is a clarification, Q being the query that clarification
\* answered, a combined query included; it is submitted alone once results
\* have been read.  The pending query is that Q, or none.
C14_FollowUp ==
  /\ \A k \in DOMAIN requests :
       requests[k].view = "conversation" =>
         requests[k].query =
           IF Asked(requests[k].sentAfter)
           THEN AskedFor(requests[k].sentAfter) \o requests[k].content
           ELSE requests[k].content
  /\ pendingBaseQuery =
       IF Asked(Len(clientLog)) THEN AskedFor(Len(clientLog)) ELSE NoQuery

\* two clarifications in a row: the second message went out behind the
\* first, and the combined query is now the pending one
C14_Witness ==
  /\ Len(requests) = 2
  /\ requests[2].view = "conversation"
  /\ requests[1].terminal = "clarification"
  /\ requests[2].terminal = "clarification"
  /\ requests[2].sentAfter = 1
  /\ requests[2].query = requests[1].content \o requests[2].content
  /\ Resets = 0
  /\ clientLog[Len(clientLog)].request = 2
  /\ pendingBaseQuery = requests[1].content \o requests[2].content

(***************************************************************************)
(* Properties of the retrieval call (route.ts).                            *)
(***************************************************************************)

\* C15: amenities are a soft signal: once the retriever has been called,
\* the call carries the location, the price bounds and the tier as its
\* only constraints, and no amenities, so that no row is left out for its
\* amenities.
C15_AmenitiesSoft ==
  CallsTo("rpc") > 0 =>
    /\ rpcParams.p_location = hints.location
    /\ rpcParams.p_min_price = hints.minPrice
    /\ rpcParams.p_max_price = hints.maxPrice
    /\ rpcParams.p_tier = hints.tier
    /\ rpcParams.p_amenities = <<>>

(***************************************************************************)
(* Properties of the scorers (hotel-query.ts).                             *)
(***************************************************************************)

InUnit(score, one) == score >= 0 /\ score <= one

\* the keywords the scorer works with
KeywordsInEffect ==
  IF hints.keywords = <<>> THEN QueryWords(userMessage) ELSE hints.keywords

\* C16: a candidate whose similarity lies in [-1, 1] has its keywordScore
\* in [0, 1] and its combinedScore, which is
\* ((similarity + 1) / 2) * 0.5 + keywordScore * 0.5, in [0, 1]; candidates
\* with the same inputs have the same scores; every hotel of the final list
\* has both scores in [0, 1].
C16_ScoreRanges ==
  /\ \A i \in DOMAIN combinedResults :
       LET h == combinedResults[i] IN
       /\ InUnit(h.keywordScore, ScoreScale)
       /\ 2 * h.combinedScore =
            (h.similarity + 100) * (ScoreScale \div 100) + 2 * h.keywordScore
       /\ (h.similarity >= -100 /\ h.similarity <= 100)
            => InUnit(h.combinedScore, 2 * ScoreScale)
  /\ \A i, j \in DOMAIN combinedResults :
       LET a == combinedResults[i]
           b == combinedResults[j]
       IN (a.description = b.description /\ a.similarity = b.similarity)
            => (a.keywordScore = b.keywordScore /\ a.combinedScore = b.combinedScore)
  /\ \A i \in DOMAIN finalHotels :
       /\ InUnit(finalHotels[i].keywordScore, ScoreScale)
       /\ InUnit(finalHotels[i].combinedScore, 2 * ScoreScale)

\* both ends of the range in one final list: similarity -1 without a
\* keyword matched gives 0, similarity 1 comes with a keyword score above
\* one half
C16_Witness ==
  /\ pc = "scored"
  /\ \E i \in DOMAIN finalHotels :
       finalHotels[i].similarity = -100 /\ finalHotels[i].combinedScore = 0
  /\ \E i \in DOMAIN finalHotels :
       /\ finalHotels[i].similarity = 100
       /\ finalHotels[i].keywordScore > ScoreScale \div 2
  /\ Len(combinedResults) = 2

\* the occurrences of each keyword in effect in the text of a candidate
Occurrences(hotel) ==
  [i \in 1..Len(KeywordsInEffect) |-> TermFreq(HotelWords(hotel), KeywordsInEffect[i])]

\* the candidates differ in the occurrences of the keyword only: the other
\* words of the descriptions are the same, or the texts are as long
AllElseEqual(a, b, keyword) ==
  /\ a.name = b.name
  /\ a.tier = b.tier
  /\ a.amenities = b.amenities
  /\ \/ SelectSeq(a.description, LAMBDA w : w # keyword)
          = SelectSeq(b.description, LAMBDA w : w # keyword)
     \/ DocLength(HotelWords(a)) = DocLength(HotelWords(b))

\* C17: with a single keyword, a candidate whose text holds it three times
\* has a strictly higher keywordScore than one that holds it once, all else
\* equal; with keywords in effect, a candidate that matches none of them
\* has keywordScore 0 and one that matches every one has at least 0.4.
C17_KeywordScoring ==
  /\ Len(KeywordsInEffect) = 1 =>
       \A i, j \in DOMAIN combinedResults :
         LET a == combinedResults[i]
             b == combinedResults[j]
         IN (/\ Occurrences(a)[1] = 3
             /\ Occurrences(b)[1] = 1
             /\ AllElseEqual(a, b, KeywordsInEffect[1]))
              => a.keywordScore > b.keywordScore
  /\ Len(KeywordsInEffect) > 0 =>
       \A i \in DOMAIN combinedResults :
         LET h == combinedResults[i] IN
         /\ (\A k \in DOMAIN Occurrences(h) : Occurrences(h)[k] = 0)
              => h.keywordScore = 0
         /\ (\A k \in DOMAIN Occurrences(h) : Occurrences(h)[k] > 0)
              => 10 * h.keywordScore >= 4 * ScoreScale

\* the keyword "quiet" three times in one description and once in the
\* other, the other words being the same
C17_Witness ==
  /\ pc = "scored"
  /\ KeywordsInEffect = <<"quiet">>
  /\ \E i, j \in DOMAIN combinedResults :
       /\ Occurrences(combinedResults[i])[1] = 3
       /\ Occurrences(combinedResults[j])[1] = 1
       /\ Len(combinedResults[j].description) = 1
       /\ AllElseEqual(combinedResults[i], combinedResults[j], "quiet")
       /\ combinedResults[i].keywordScore > combinedResults[j].keywordScore

(***************************************************************************)
(* Properties of the order of the stages (route.ts).                       *)
(***************************************************************************)

\* C18: the stages run in the order scoring, validator, context filter,
\* truncation: on the path that has the context filter, the final list is
\* the validated list with the contradicting hotels taken out and then cut
\* to the configured size, so that a hotel ranked below maxResults moves up
\* when a hotel above it is taken out.
C18_StageOrder ==
  (version = "v1" /\ useStream /\ rpcResult = "data" /\ pc = "done") =>
    finalHotels =
      LimitResults(buildSummaryContext(userMessage, hints, validatedHotels).relevantHotels)

(***************************************************************************)
(* Properties of the intent detector (lib/intent-detection.ts).            *)
(***************************************************************************)

\* the words of the query, lowercased
QueryText == LowerText(userMessage)

\* the query holds a phrase of the class, said by its words
SaysMostExpensive ==
  \/ Includes2(QueryText, "most", "expensive")
  \/ Includes2(QueryText, "highest", "price")
  \/ \E w \in {"priciest", "luxury", "premium", "exclusive"} : Includes(QueryText, w)

SaysCheapest ==
  \/ Includes2(QueryText, "lowest", "price")
  \/ Includes2(QueryText, "most", "affordable")
  \/ \E w \in {"cheapest", "budget"} : Includes(QueryText, w)

\* the words that name each amount, with or without the dollar sign, and
\* the same words after a tilde
NamesOfAmount ==
  [n \in 1..MaxTarget |-> {ToString(n), "$" \o ToString(n)}]

TildeNamesOfAmount ==
  [n \in 1..MaxTarget |-> {"~" \o ToString(n), "~$" \o ToString(n)}]

\* the amounts above 0 that follow one of the words of a price target, or
\* a tilde, in the text
TargetsIn(text) ==
  {n \in 1..MaxTarget :
     \/ \E i \in 1..(Len(text) - 1) :
          /\ \E w \in {"around", "about", "approximately"} : Includes(<<text[i]>>, w)
          /\ text[i + 1] \in NamesOfAmount[n]
     \/ \E i \in 1..Len(text) :
          text[i] \in TildeNamesOfAmount[n]}

SaysTargets == TargetsIn(QueryText)

\* C19: the detector looks for the most-expensive patterns first, then the
\* cheapest patterns, then the price targets, and answers normal otherwise:
\* a query with both superlatives is most_expensive; the confidence is 0.9
\* for a superlative, 0.85 for price_range and 1.0 for normal; price_range
\* comes with a priceTarget above 0 that the query names.
C19_DetectorPriority ==
  Interpreted =>
    LET result == detectQueryIntent(userMessage) IN
    /\ hints.queryIntent = result.intent
    /\ hints.priceTarget = result.priceTarget
    /\ result.intent =
         IF SaysMostExpensive THEN "most_expensive"
         ELSE IF SaysCheapest THEN "cheapest"
         ELSE IF SaysTargets # {} THEN "price_range"
         ELSE "normal"
    /\ result.confidence =
         IF result.intent \in {"most_expensive", "cheapest"} THEN 90
         ELSE IF result.intent = "price_range" THEN 85
         ELSE 100
    /\ result.intent = "price_range" <=> result.priceTarget.has
    /\ result.priceTarget.has => result.priceTarget.v \in SaysTargets

\* a query with both superlatives and a price target has been classified
C19_Witness ==
  /\ Interpreted
  /\ SaysMostExpensive
  /\ SaysCheapest
  /\ SaysTargets # {}
  /\ hints.queryIntent = "most_expensive"
  /\ hints.sortBy = "price_desc"

\* C20: the location of the hints is the one the parser gave when it gave
\* one, and otherwise the one the detector finds in the text of the query;
\* so a query that names a city is not answered by the clarification that
\* asks for the location.
C20_LocationReconciled ==
  Interpreted =>
    /\ hints.location =
         IF ParserHints.location # NULL THEN ParserHints.location
         ELSE extractLocation(userMessage)
    /\ extractLocation(userMessage) # NULL =>
         /\ EventsOfType("clarification") = <<>>
         /\ response.body.type # "clarification"

(***************************************************************************)
(* supabaseRpcWithRetry (lib/supabase.ts), one action per await.           *)
(***************************************************************************)

maxRetriesDefault == 3

\* the messages of the errors supabase.rpc gives in the model
StatementTimeout == "canceling statement due to statement timeout"
FetchFailed == "TypeError: fetch failed"
PermissionDenied == "permission denied for function match_hotels_hybrid"

ErrorMessages == {StatementTimeout, FetchFailed, PermissionDenied}

\* String.includes on the messages of the model
MessageIncludes(message, part) ==
  \/ message = StatementTimeout /\ part = "timeout"
  \/ message = FetchFailed /\ part = "fetch failed"

\* what one call of supabase.rpc can do: resolve with data (no rows, or
\* rows), resolve with an error, or reject
RpcOutcomes ==
  {[kind |-> "data", data |-> d, message |-> NULL] : d \in {"[]", "rows"}}
    \cup {[kind |-> k, data |-> NULL, message |-> m] :
            k \in {"error", "throw"}, m \in ErrorMessages}

\* return { data, error }
RetryReturns(data, error) ==
  /\ retryResult' = [returned |-> TRUE, data |-> data, error |-> error]
  /\ retryPc' = "returned"

\* the call: lastError = null, attempt = 1, and the first supabase.rpc
supabaseRpcWithRetry(n) ==
  /\ retryPc = "idle"
  /\ maxRetries' = n
  /\ attempt' = 1
  /\ lastError' = NULL
  /\ retryPc' = "rpc"
  /\ UNCHANGED <<attempts, retryResult>>
  /\ UNCHANGED <<serverVars, clientVars, storeVars, llmReply>>

\* supabase.rpc settles, and the loop runs up to its next await or return
RpcSettles(outcome) ==
  /\ retryPc = "rpc"
  /\ attempts' = Append(attempts, outcome)
  /\ CASE outcome.kind = "data" ->
            /\ RetryReturns(outcome.data, NULL)
            /\ UNCHANGED <<attempt, lastError>>
       [] outcome.kind = "error" ->
            IF \/ MessageIncludes(outcome.message, "timeout")
               \/ MessageIncludes(outcome.message, "fetch failed")
            THEN /\ lastError' = outcome.message
                 /\ IF attempt < maxRetries
                    THEN /\ retryPc' = "delay"
                         /\ UNCHANGED <<attempt, retryResult>>
                    ELSE /\ RetryReturns(NULL, outcome.message)
                         /\ UNCHANGED attempt
            ELSE /\ RetryReturns(NULL, outcome.message)
                 /\ UNCHANGED <<attempt, lastError>>
       [] outcome.kind = "throw" ->
            /\ lastError' = outcome.message
            /\ IF attempt < maxRetries
               THEN /\ retryPc' = "delay"
                    /\ UNCHANGED <<attempt, retryResult>>
               ELSE /\ attempt' = attempt + 1
                    /\ RetryReturns(NULL, outcome.message)
  /\ UNCHANGED maxRetries
  /\ UNCHANGED <<serverVars, clientVars, storeVars, llmReply>>

\* the timer of delayMs * attempt fires: attempt++ and the next supabase.rpc
DelayElapsed ==
  /\ retryPc = "delay"
  /\ attempt' = attempt + 1
  /\ retryPc' = "rpc"
  /\ UNCHANGED <<maxRetries, lastError, attempts, retryResult>>
  /\ UNCHANGED <<serverVars, clientVars, storeVars, llmReply>>

InitRetry ==
  /\ InitRequest
  /\ byLocation = DocumentedMaxPrice
  /\ InitChatMain
  /\ InitLibrary

NextRetry ==
  \/ \E n \in 1..maxRetriesDefault : supabaseRpcWithRetry(n)
  \/ \E outcome \in RpcOutcomes : RpcSettles(outcome)
  \/ DelayElapsed

SpecRetry == InitRetry /\ [][NextRetry]_vars

(***************************************************************************)
(* Properties of the retry helper.                                         *)
(***************************************************************************)

\* the attempt ended in an error, returned or thrown, whose message names a
\* timeout or a failed fetch
TransientFailure(outcome) ==
  /\ outcome.kind # "data"
  /\ outcome.message \in {StatementTimeout, FetchFailed}

\* C21: supabaseRpcWithRetry makes at most maxRetries attempts; an attempt
\* is followed by another one only when it failed with a timeout or a
\* failed fetch; data and any other error are returned at once, and after
\* the last attempt has failed its error is returned with data null.
C21_RetryPolicy ==
  /\ Len(attempts) <= maxRetries
  /\ \A i \in 1..(Len(attempts) - 1) : TransientFailure(attempts[i])
  /\ retryPc \in {"rpc", "delay"} /\ attempts # <<>> =>
       TransientFailure(attempts[Len(attempts)])
  /\ retryResult.returned =>
       LET last == attempts[Len(attempts)] IN
       /\ last.kind = "data" =>
            retryResult.data = last.data /\ retryResult.error = NULL
       /\ last.kind # "data" =>
            retryResult.data = NULL /\ retryResult.error = last.message
       /\ TransientFailure(last) => Len(attempts) = maxRetries

(***************************************************************************)
(* Properties of the interpreter's sanitisation.                           *)
(***************************************************************************)

\* the value of the reply is a number that passes the test of the field
NumberAbove(v, least) == v.t = "number" /\ v.n >= least

\* no override of the bounds is made for the query
BoundsFromParser == hints.queryIntent \in {NULL, "normal"}

\* C22: whatever JSON the parsing model returns, the hints have no negative
\* minPrice, no maxPrice <= 0, no price <= 0 and a tier among Budget,
\* Mid-tier, Luxury and null; a value off the schema becomes null and the
\* interpreter returns its hints; the keywords are lowercase.
C22_Sanitized ==
  hintsReady =>
    LET parsed == parserReply.parsed IN
    /\ hints.minPrice.has => hints.minPrice.v >= 0
    /\ hints.maxPrice.has => hints.maxPrice.v > 0
    /\ hints.price.has => hints.price.v > 0
    /\ hints.tier \in {"Budget", "Mid-tier", "Luxury", NULL}
    /\ \A i \in 1..Len(hints.keywords) : ToLower(hints.keywords[i]) = hints.keywords[i]
    /\ hints.price = IF NumberAbove(parsed.price, 1) THEN Some(parsed.price.n) ELSE None
    /\ BoundsFromParser =>
         /\ hints.minPrice =
              IF NumberAbove(parsed.minPrice, 0) THEN Some(parsed.minPrice.n) ELSE None
         /\ hints.maxPrice =
              IF NumberAbove(parsed.maxPrice, 1) THEN Some(parsed.maxPrice.n) ELSE None
    /\ parsed.tier.t # "string" /\ hints.keywords = <<>> /\ BoundsFromParser =>
         hints.tier = NULL

\* a reply with a price of 0, a negative maxPrice, an unknown tier and
\* capitalised keywords has been sanitised, for a query without override
C22_Witness ==
  /\ hintsReady
  /\ BoundsFromParser
  /\ parserReply.parsed.price = JNum(0)
  /\ parserReply.parsed.maxPrice = JNum(-40)
  /\ parserReply.parsed.tier = JStr("Deluxe")
  /\ hints.price = None
  /\ hints.maxPrice = None
  /\ hints.minPrice = Some(0)
  /\ hints.tier = NULL
  /\ hints.keywords = <<"pool", "wifi">>

(***************************************************************************)
(* Properties of the re-ranking step (later version, streaming).           *)
(***************************************************************************)

\* llmReRankHotels has returned to the route
RerankReturned == version = "v2" /\ useStream /\ pc = "respond"

\* combinedScore descending, equal scores by ascending price
DeterministicOrder(list) ==
  \A i, j \in 1..Len(list) :
    i < j =>
      \/ list[i].combinedScore > list[j].combinedScore
      \/ /\ list[i].combinedScore = list[j].combinedScore
         /\ list[i].price_per_night <= list[j].price_per_night

\* the query or a keyword holds one of the phrases of a vague intent
SaysVague ==
  \/ Includes2(QueryText, "best", "value")
  \/ Includes2(QueryText, "best", "deal")
  \/ Includes2(QueryText, "most", "suitable")
  \/ \E k \in Range(hints.keywords) : k \in {"value", "deal", "suitable"}

\* the model was asked and gave no usable order
CallFailed == llmReply.kind \in {"unavailable", "throw", "empty", "no_array"}

IdsOf(list) == [i \in 1..Len(list) |-> list[i].id]

TerminalTypes == {"clarification", "error", "results"}

\* the positions of the terminal events among the chunks
TerminalAt == {i \in 1..Len(events) : events[i].type \in TerminalTypes}

\* the hotels of the hotel events, in the order sent
HotelsSent ==
  LET sent == EventsOfType("hotel") IN [i \in 1..Len(sent) |-> sent[i].hotel]

\* C24: when the generator of a request has completed, the stream carries
\* each chunk once, in the order generated, then one [DONE] frame, which is
\* the last frame; one terminal event (clarification, error or results) was
\* sent and no typed event follows it; every hotel event comes before the
\* results event, and the hotel events are the hotels of results.hotels, in
\* number and order.
C24_StreamProtocol ==
  /\ streamState # "closed" =>
       /\ Len(frames) = Len(events)
       /\ \A i \in 1..Len(frames) : ~frames[i].done
  /\ streamState = "closed" =>
       /\ Len(frames) = Len(events) + 1
       /\ \A i \in 1..Len(events) : ~frames[i].done /\ frames[i].data = events[i]
       /\ frames[Len(frames)].done
       /\ Cardinality(TerminalAt) = 1
       /\ \A t \in TerminalAt :
            /\ \A j \in (t + 1)..Len(events) : events[j].type = "step"
            /\ \A j \in 1..Len(events) : events[j].type = "hotel" => j < t
            /\ IF events[t].type = "results"
               THEN /\ HotelsSent = events[t].hotels
                    /\ \A i \in 1..Len(EventsOfType("hotel")) :
                         EventsOfType("hotel")[i].index = i - 1
               ELSE HotelsSent = <<>>

\* a stream of the later version has closed after three hotels or more and
\* the results
C24_Witness ==
  /\ streamState = "closed"
  /\ version = "v2"
  /\ Len(HotelsSent) >= 3
  /\ events[Len(events)].type = "results"
  /\ frames[Len(frames)] = DoneFrame
  /\ \E i \in 1..Len(events) : events[i].type = "response_chunk"

(***************************************************************************)
(* Properties of the searches in flight on the client.                     *)
(***************************************************************************)

\* the searches started by callHotelSearchStreaming and not yet finished
InFlight == {k \in DOMAIN requests : requests[k].state = "reading"}

\* C25: under any interleaving of handleSend, handleSendMessage,
\* handleReset and the end of a stream, isLoading is true while a search
\* has not finished, at most one search is in flight, and
\* streamingMessageId is the placeholder of the search in flight.
C25_SingleInFlight ==
  /\ InFlight # {} => isLoading
  /\ Cardinality(InFlight) <= 1
  /\ \A k \in InFlight : streamingMessageId = requests[k].messageId

(***************************************************************************)
(* Properties of the record the context filter keeps.                      *)
(***************************************************************************)

\* the ids of the hotels the filter returns and of those it lists as removed
RelevantIds == IdsOf(summaryContext.relevantHotels)
FilteredOutIds == IdsOf(summaryContext.filteredOutHotels)

\* s holds elements of t in the order of t
InOrderOf(s, t) ==
  \A i, j \in 1..Len(s) :
    i < j => \E a, b \in 1..Len(t) : a < b /\ t[a] = s[i] /\ t[b] = s[j]

\* C26: in every result of buildSummaryContext, relevantHotels and
\* filteredOutHotels are disjoint and together hold exactly the candidates,
\* relevantHotels is in the order of the input, and a hotel is listed in
\* filteredOutHotels only if it contradicts an active intent tag.
C26_RemovedRecord ==
  ContextBuilt =>
    /\ Range(RelevantIds) \cap Range(FilteredOutIds) = {}
    /\ Range(RelevantIds) \cup Range(FilteredOutIds) = Range(IdsOf(candidateHotels))
    /\ Len(RelevantIds) + Len(FilteredOutIds) = Len(candidateHotels)
    /\ InOrderOf(RelevantIds, IdsOf(candidateHotels))
    /\ \A i \in 1..Len(candidateHotels) :
         candidateHotels[i].id \in Range(FilteredOutIds) =>
           Contradicts(userMessage, candidateHotels[i])

\* how many times the hotel with the id is in the list
TimesIn(list, id) == Cardinality({i \in 1..Len(list) : list[i].id = id})

\* C27: whatever the model answers (any index array, with repeated, missing
\* or out-of-range indices), llmReRankHotels returns the hotels of its
\* input, each exactly once: none lost, duplicated or invented.
C27_Permutation ==
  RerankReturned =>
    /\ Len(rerankedHotels) = Len(validatedHotels)
    /\ \A i \in 1..Len(validatedHotels) :
         TimesIn(rerankedHotels, validatedHotels[i].id) = 1
    /\ \A i \in 1..Len(rerankedHotels) :
         \E j \in 1..Len(validatedHotels) : rerankedHotels[i] = validatedHotels[j]

(***************************************************************************)
(* The streaming and the non-streaming path on the same inputs.            *)
(***************************************************************************)

\* the hotels the streaming path of the version sends for the rows, the
\* hints and the query: first version rank, validate, cut, context filter;
\* later version rank, validate, re-rank (with the reply of the model),
\* cut
StreamingHotels(v, rows, h, query, reply) ==
  IF v = "v1"
  THEN buildSummaryContext(query, h,
         LimitResults(Validated(RankV1Stream(rows, h, query)))).relevantHotels
  ELSE LimitResults(llmReRankHotels(Validated(RankV2Stream(rows, h, query)),
                                    query, h, reply))

\* the non-streaming path has answered with results
JsonResults == pc = "done" /\ ~useStream /\ response.body.type = "results"

\* C28: for the same query, hints and rows, the non-streaming path answers
\* with the hotels the streaming path sends, in the same order (for some
\* reply of the re-ranking model, where the streaming path asks it).
C28_PathEquivalence ==
  JsonResults =>
    \E reply \in LlmReplies :
      IdsOf(response.body.hotels)
        = IdsOf(StreamingHotels(version, hotels, hints, userMessage, reply))

(***************************************************************************)
(* The price interval of the hints.                                        *)
(***************************************************************************)

\* parseHotelQueryWithOpenAI has returned its hints
ParserReturned == version = "v1" /\ hintsReady

\* C29: in the hints parseHotelQueryWithOpenAI returns, a minPrice and a
\* maxPrice that are both set satisfy minPrice <= maxPrice.
C29_PriceInterval ==
  ParserReturned /\ hints.minPrice.has /\ hints.maxPrice.has
    => hints.minPrice.v <= hints.maxPrice.v

(***************************************************************************)
(* The chat store (store/chat-store.ts).  A chat is its id, its title and  *)
(* its optional isArchived, which is "undefined", "true" or "false".       *)
(***************************************************************************)

MaxChats == 3

ChatIds == {"c1", "c2"}

ChatTitles == {"Trip"}

NewChats ==
  [id : ChatIds, title : ChatTitles, isArchived : {"undefined", "false"}]

\* the state the set() callbacks read
StoreState == [chats |-> chats, selectedChatId |-> selectedChatId]

\* state.chats.filter((chat) => chat.id !== id)
ChatsWithout(list, id) == SelectSeq(list, LAMBDA chat : chat.id # id)

\* state.chats.map((chat) => chat.id === id ? { ...chat, isArchived } : chat)
ChatsArchived(list, id, flag) ==
  [i \in 1..Len(list) |->
     IF list[i].id = id THEN [list[i] EXCEPT !.isArchived = flag] ELSE list[i]]

addChat(state, chat) ==
  [chats |-> Append(state.chats, chat), selectedChatId |-> chat.id]

\* a variant that forgets the selection of the chat it removes
removeChatKeepsSelection(state, id) ==
  [chats |-> ChatsWithout(state.chats, id),
   selectedChatId |-> state.selectedChatId]

removeChat(state, id) ==
  [chats |-> ChatsWithout(state.chats, id),
   selectedChatId |->
     IF state.selectedChatId = id THEN NULL ELSE state.selectedChatId]

selectChat(state, id) == [state EXCEPT !.selectedChatId = id]

archiveChat(state, id) ==
  [state EXCEPT !.chats = ChatsArchived(state.chats, id, "true")]

unarchiveChat(state, id) ==
  [state EXCEPT !.chats = ChatsArchived(state.chats, id, "false")]

deleteChat(state, id) ==
  [chats |-> ChatsWithout(state.chats, id),
   selectedChatId |->
     IF state.selectedChatId = id THEN NULL ELSE state.selectedChatId]

ChatIdsOf(list) == {list[i].id : i \in 1..Len(list)}

\* set(): the store takes the state a function computed
StoreSet(next, op, id) ==
  /\ chats' = next.chats
  /\ selectedChatId' = next.selectedChatId
  /\ storeCall' = [op |-> op, id |-> id,
                   onExisting |-> storeCall.onExisting
                                    /\ (op = "addChat" \/ id \in ChatIdsOf(chats))]
  /\ UNCHANGED <<serverVars, clientVars, retryVars, llmReply>>

CallAddChat(chat) ==
  /\ Len(chats) < MaxChats
  /\ StoreSet(addChat(StoreState, chat), "addChat", chat.id)

CallRemoveChat(id) == StoreSet(removeChat(StoreState, id), "removeChat", id)

CallSelectChat(id) == StoreSet(selectChat(StoreState, id), "selectChat", id)

CallArchiveChat(id) == StoreSet(archiveChat(StoreState, id), "archiveChat", id)

CallUnarchiveChat(id) ==
  StoreSet(unarchiveChat(StoreState, id), "unarchiveChat", id)

CallDeleteChat(id) == StoreSet(deleteChat(StoreState, id), "deleteChat", id)

InitStore ==
  /\ InitRequest
  /\ byLocation = DocumentedMaxPrice
  /\ InitChatMain
  /\ InitLibrary

NextStore ==
  \/ \E chat \in NewChats : CallAddChat(chat)
  \/ \E id \in ChatIds : CallRemoveChat(id)
  \/ \E id \in ChatIds : CallSelectChat(id)
  \/ \E id \in ChatIds : CallArchiveChat(id)
  \/ \E id \in ChatIds : CallUnarchiveChat(id)
  \/ \E id \in ChatIds : CallDeleteChat(id)

SpecStore == InitStore /\ [][NextStore]_vars

\* the selection is null or the id of a chat of the list
SelectionValid(selected, list) == selected = NULL \/ selected \in ChatIdsOf(list)

\* the step was a removal: the selection is dropped if it was the removed
\* chat and is kept otherwise
RemovalStep ==
  storeCall'.op \in {"removeChat", "deleteChat"} =>
    selectedChatId' =
      IF selectedChatId = storeCall'.id THEN NULL ELSE selectedChatId

\* the step set the flag of a chat: the list keeps its length and order,
\* every chat but the target is as it was, the target differs in isArchived
\* at most, and the selection is as it was
ArchiveStep ==
  storeCall'.op \in {"archiveChat", "unarchiveChat"} =>
    /\ selectedChatId' = selectedChatId
    /\ Len(chats') = Len(chats)
    /\ \A i \in 1..Len(chats) :
         IF chats[i].id = storeCall'.id
         THEN chats'[i] =
                [chats[i] EXCEPT !.isArchived =
                   IF storeCall'.op = "archiveChat" THEN "true" ELSE "false"]
         ELSE chats'[i] = chats[i]

\* C30: while every call names a chat of the list, the selection is null or
\* the id of a chat of the list; removeChat and deleteChat drop the selection
\* of the chat they remove and keep any other; archiveChat and unarchiveChat
\* change the isArchived of their chat and nothing else.
C30_StoreSelection ==
  [][storeCall'.onExisting =>
       /\ SelectionValid(selectedChatId', chats')
       /\ RemovalStep
       /\ ArchiveStep]_vars

\* the selected chat was removed while another, archived, stays in the list
C30_Witness ==
  /\ storeCall.op \in {"removeChat", "deleteChat"}
  /\ storeCall.onExisting
  /\ selectedChatId = NULL
  /\ \E i \in 1..Len(chats) : chats[i].isArchived = "true"

=============================================================================
